---- MODULE Spec2Model ----
(***************************************************************************)
(* The terminal session engine of gibberish: the PTY worker thread         *)
(* (run_worker), its command channel and handles, TerminalSession's        *)
(* shutdown, and the execution gate of ShellToolContext.                   *)
(***************************************************************************)
EXTENDS Integers, Sequences, FiniteSets, TLC

\* ---------------------------------------------------------------- bounds
MaxCalls == 2        \* calls the user issues while the session is shut down
MaxGated == 1        \* gated calls each caller issues when both use the gate
MaxLen == 2          \* bytes of one SendInput payload
MaxGen == 2          \* children that can ever be spawned (start + resets)
MaxOut == 1          \* output chunks one child produces
MaxShutdowns == 2    \* calls of TerminalSession::shutdown
MaxSize == 2         \* the largest COLUMNS / LINES that fits the sizes tried
MaxReplLines == 2    \* lines the REPL reads
MaxDesc == 2         \* descendants of the shell in its process group
MaxLines == 2        \* rows of a snapshot that is rendered
MaxWidth == 2        \* characters of one such row
U16Max == 65535      \* u16::MAX, the limit of u16::try_from

\* ---------------------------------------------------------------- names
Agent == "agent"
User == "user"
Owner == "owner"
Callers == {Agent, User}
Clients == Callers \cup {Owner}
Gens == 1..MaxGen

VARIABLES
    \* run_worker's locals
    wpc,            \* position of the worker thread
    child,          \* the current child (its generation number)
    new_child,      \* the replacement spawned by Reset, 0 when there is none
    child_exited,   \* the exit-observed flag
    vt,             \* output chunks the current emulator has been fed
    wcmd,           \* the command being processed
    wrem,           \* write_all_with_retry's `bytes`: what is left to write
    \* operating system
    procs,          \* gen -> "unspawned" | "running" | "dead"
    ptyIn,          \* gen -> bytes written to that child's PTY
    ptyOut,         \* gen -> output chunks written by the child, not yet read
    termRuns,       \* gen -> runs of terminate_bash_and_children on that child
    \* command channel
    queue,          \* commands in flight, in send order
    reply,          \* client -> what its one-shot reply channel holds
    sentLog,        \* the commands sent so far, in send order (seq = rank)
    procLog,        \* seqs of the commands the worker received, in order
    replLog,        \* the replies the worker sent, in order
    \* execution gate and its callers
    execution_lock, \* holder of ShellToolContext::execution_lock, or "free"
    yolo,           \* the auto-approve flag
    cpc,            \* caller -> position
    ccall,          \* caller -> the call it is making
    calls,          \* caller -> calls it has yet to make
    cres,           \* caller -> result of its last finished call
    \* TerminalSession
    opc,            \* position of the session's owner
    worker,         \* TerminalSession::worker: "some" | "none"
    shutdowns,      \* calls of shutdown so far
    \* TerminalSession::start and the configuration
    options,        \* SessionConfig: shell.env's COLUMNS and LINES, as parsed integers
    cols,           \* run_worker's `cols`, 0 before terminal_size returned
    rows,           \* run_worker's `rows`
    sizes,          \* gen -> the sizes its PTY and its emulator were created with
    ready,          \* what the readiness one-shot channel holds
    sres,           \* what start returned
    \* TerminalSnapshot::render
    snapshot,       \* the TerminalSnapshot render is called on
    rendered,       \* what render returned
    \* the REPL
    repl_line,      \* the line process_line was last called with
    chat_history,   \* AgentRuntime::chat_history: the prompts the agent was given
    \* terminate_bash_and_children and the child's process group
    tpc,            \* position in terminate_bash_and_children, "none" outside it
    signals,        \* the signals it has sent, in order
    waited,         \* what the last wait_for_child_exit returned
    pgroup,         \* descendant -> "absent" | "running" | "dead", the shell's
                    \* descendants in its process group
    ignores,        \* the members of the group that ignore the graceful signal
    fatal,          \* the members a signal that ends them has been delivered to
    reaped,         \* the current Child holds its exit status: a try_wait has
                    \* returned it
    \* maybe_confirm's preview of the bytes of a tool call
    confirm_bytes,  \* the bytes of the tool call
    preview,        \* render_bytes(bytes)
    redecoded       \* decode_terminal_input applied to the preview

wvars == <<wpc, child, new_child, child_exited, vt, wcmd, wrem>>
osvars == <<procs, ptyIn, ptyOut, termRuns>>
chvars == <<queue, reply, sentLog, procLog, replLog>>
cvars == <<execution_lock, yolo, cpc, ccall, calls, cres>>
ovars == <<opc, worker, shutdowns>>
svars == <<options, cols, rows, sizes, ready, sres>>
rvars == <<snapshot, rendered>>
lvars == <<repl_line, chat_history>>
tvars == <<tpc, signals, waited, pgroup, ignores, fatal>>
bvars == <<confirm_bytes, preview, redecoded>>
vars == <<wvars, osvars, chvars, cvars, ovars, svars, rvars, lvars, tvars, reaped, bvars>>

\* ---------------------------------------------------------------- values
R(tag) == [tag |-> tag, gen |-> 0, fed |-> 0, cols |-> 0, rows |-> 0]
NoReply == R("none")
\* TerminalSnapshot { cols, rows, cursor, lines }: cols and rows are
\* run_worker's locals; the screen is named by the emulator's generation and
\* the output it was fed.
Snap(g, n) == [tag |-> "snap", gen |-> g, fed |-> n, cols |-> cols, rows |-> rows]
\* The sizes a triple is created with: pty.resize(Size::new(rows_u16, cols_u16))
\* and Vt::builder().size(cols, rows).
Sz(c, r) == [pty |-> <<r, c>>, vt |-> <<c, r>>]
NoSize == Sz(0, 0)
\* TerminalSnapshot::cursor when the cursor is hidden; a cursor is <<col, row>>.
NoCursor == <<>>
\* No snapshot is being rendered, nothing has been rendered.
NoSnapshot == [cols |-> 0, rows |-> 0, cursor |-> NoCursor, lines |-> <<>>]
NotRendered == [lines |-> <<>>, footer |-> <<>>, text |-> <<"unrendered">>]
\* no line read yet
NoLine == <<"unread">>
\* nothing previewed, nothing decoded from a preview
NotPreviewed == <<"unpreviewed">>
NotDecoded == [ok |-> FALSE, bytes |-> <<>>, err |-> "undecoded"]
NoPreview ==
    /\ confirm_bytes = <<>>
    /\ preview = NotPreviewed
    /\ redecoded = NotDecoded
\* The members of the child's process group: the shell (0) and its descendants.
Desc == 1..MaxDesc
Members == {0} \cup Desc
\* terminate_bash_and_children is not running and nothing is known of a group.
NoTermination ==
    /\ tpc = "none"
    /\ signals = <<>>
    /\ waited = "none"
    /\ pgroup = [d \in Desc |-> "absent"]
    /\ ignores = {}
    /\ fatal = {}
    /\ reaped = FALSE
NoCmd == [kind |-> "none", from |-> "none", seq |-> 0, bytes |-> <<>>]
\* The answer field of a call that has read no confirmation answer.
NotAsked == <<"unasked">>
NoCall == [kind |-> "none", wait |-> "zero", len |-> 0, answer |-> NotAsked]

\* The payload of the command with rank s: each byte carries its command and
\* its index, so that loss, duplication and reordering show in ptyIn.
Payload(s, len) == [i \in 1..len |-> <<s, i>>]

Cmd(kind, from, s, bytes) == [kind |-> kind, from |-> from, seq |-> s, bytes |-> bytes]

\* Live senders of the channel: the session's cmd_tx and every handle clone.
Senders == (IF opc = "dropped" THEN 0 ELSE 1) + Cardinality({c \in Callers : cpc[c] # "gone"})

\* The receiver exists until run_worker returns.
RxAlive == wpc # "done"


\* ---------------------------------------------------------------- channel
\* ack.send(res) / reply.send(..): the one-shot reply of command s to client c.
SendReply(c, val, s) ==
    /\ reply' = [reply EXCEPT ![c] = val]
    /\ replLog' = Append(replLog, [seq |-> s, tag |-> val.tag, gen |-> child,
                                   fed |-> IF val.tag = "snap" THEN val.fed ELSE vt])

\* DropRx with the receiver kept alive by a leaked reference: nothing queued
\* is dropped.
DropRx_Leak == UNCHANGED <<queue, reply>>

\* cmd_rx is dropped when run_worker returns: the commands still queued are
\* dropped with their reply senders, so their callers see a closed channel.
DropRx ==
    /\ queue' = <<>>
    /\ reply' = [c \in Clients |->
                    IF \E i \in 1..Len(queue) : queue[i].from = c
                    THEN R("dropped") ELSE reply[c]]

\* cmd_tx.send(cmd): the command joins the queue; it fails once the receiver
\* is gone (the caller handles that case itself).
Enqueue(kind, from, bytes) ==
    /\ queue' = Append(queue, Cmd(kind, from, Len(sentLog) + 1, bytes))
    /\ sentLog' = Append(sentLog, [kind |-> kind, from |-> from, len |-> Len(bytes)])

\* ---------------------------------------------------------------- process lifecycle
NextGen == Cardinality({g \in Gens : procs[g] # "unspawned"}) + 1

\* terminate_bash_and_children(child): after the ladder the child is gone.
Terminate(g) ==
    /\ procs' = [procs EXCEPT ![g] = "dead"]
    /\ termRuns' = [termRuns EXCEPT ![g] = @ + 1]

\* A child the worker holds (the current one, or the replacement a Reset has
\* spawned) writes a chunk of output to its side of the PTY.
ChildOutput ==
    /\ \E g \in {child, new_child} \cap Gens :
        /\ procs[g] = "running"
        /\ wpc # "done"
        /\ (IF g = child THEN vt ELSE 0) + ptyOut[g] < MaxOut
        /\ ptyOut' = [ptyOut EXCEPT ![g] = @ + 1]
    /\ UNCHANGED <<wvars, procs, ptyIn, termRuns, chvars, cvars, ovars, svars, rvars, lvars, tvars, reaped, bvars>>

\* Such a child exits by itself.
ChildExit ==
    /\ \E g \in {child, new_child} \cap Gens :
        /\ procs[g] = "running"
        /\ wpc # "done"
        /\ procs' = [procs EXCEPT ![g] = "dead"]
    /\ UNCHANGED <<wvars, ptyIn, ptyOut, termRuns, chvars, cvars, ovars, svars, rvars, lvars, tvars, reaped, bvars>>

\* ---------------------------------------------------------------- run_worker
\* Loop top, drain_pty_output: Ok(false) on would-block, Ok(true) on end of
\* file or EIO (the child side is closed), Err on any other read error, which
\* run_worker returns at once.
DrainTop ==
    /\ wpc = "top"
    /\ IF child_exited
       THEN /\ wpc' = "recv"
            /\ UNCHANGED <<child_exited, vt, ptyOut, queue, reply>>
       ELSE \/ /\ wpc' = "poll"                        \* Ok(false)
               /\ vt' = vt + ptyOut[child]
               /\ ptyOut' = [ptyOut EXCEPT ![child] = 0]
               /\ UNCHANGED <<child_exited, queue, reply>>
            \/ /\ procs[child] = "dead"                \* Ok(true)
               /\ wpc' = "poll"
               /\ vt' = vt + ptyOut[child]
               /\ ptyOut' = [ptyOut EXCEPT ![child] = 0]
               /\ child_exited' = TRUE
               /\ UNCHANGED <<queue, reply>>
            \/ /\ wpc' = "done"                        \* Err(err): return Err
               /\ DropRx
               /\ UNCHANGED <<child_exited, vt, ptyOut>>
    /\ UNCHANGED <<child, new_child, wcmd, wrem, procs, ptyIn, termRuns,
                   sentLog, procLog, replLog, cvars, ovars, svars, rvars, lvars, tvars, reaped, bvars>>

\* child.try_wait()?: Some(status) once the child is dead, an error returns.
PollExit ==
    /\ wpc = "poll"
    /\ \/ /\ procs[child] = "running"
          /\ wpc' = "recv"
          /\ UNCHANGED <<child_exited, reaped, queue, reply>>
       \/ /\ procs[child] = "dead"
          /\ wpc' = "recv"
          /\ child_exited' = TRUE
          /\ reaped' = TRUE
          /\ UNCHANGED <<queue, reply>>
       \/ /\ ~reaped
          /\ wpc' = "done"
          /\ DropRx
          /\ UNCHANGED <<child_exited, reaped, bvars>>
    /\ UNCHANGED <<child, new_child, vt, wcmd, wrem, osvars,
                   sentLog, procLog, replLog, cvars, ovars, svars, rvars, lvars, tvars, bvars>>

\* RecvSendInput that writes to the PTY whether or not the child has exited.
RecvSendInput_IgnoreExited ==
    /\ wpc = "recv"
    /\ queue # <<>>
    /\ Head(queue).kind = "SendInput"
    /\ queue' = Tail(queue)
    /\ procLog' = Append(procLog, Head(queue).seq)
    /\ wcmd' = Head(queue)
    /\ wrem' = Head(queue).bytes
    /\ wpc' = "write"
    /\ UNCHANGED <<child, new_child, child_exited, vt, osvars, sentLog, reply, replLog,
                   cvars, ovars, svars, rvars, lvars, tvars, reaped, bvars>>

\* recv_timeout returned a SendInput.
RecvSendInput ==
    /\ wpc = "recv"
    /\ queue # <<>>
    /\ Head(queue).kind = "SendInput"
    /\ queue' = Tail(queue)
    /\ procLog' = Append(procLog, Head(queue).seq)
    /\ IF child_exited
       THEN /\ SendReply(Head(queue).from, R("exited"), Head(queue).seq)
            /\ wpc' = "top"
            /\ UNCHANGED <<wcmd, wrem>>
       ELSE /\ wcmd' = Head(queue)
            /\ wrem' = Head(queue).bytes
            /\ wpc' = "write"
            /\ UNCHANGED <<reply, replLog>>
    /\ UNCHANGED <<child, new_child, child_exited, vt, osvars, sentLog, cvars, ovars, svars, rvars, lvars, tvars, reaped, bvars>>

\* WriteStep advancing `bytes` by one byte whatever count pty.write returned.
WriteStep_AdvanceOne ==
    /\ wpc = "write"
    /\ IF wrem = <<>>
       THEN /\ SendReply(wcmd.from, R("ok"), wcmd.seq)
            /\ wpc' = "top"
            /\ wcmd' = NoCmd
            /\ UNCHANGED <<wrem, ptyIn>>
       ELSE \/ \E n \in 1..Len(wrem) :
                 /\ ptyIn' = [ptyIn EXCEPT ![child] = @ \o SubSeq(wrem, 1, n)]
                 /\ wrem' = Tail(wrem)
                 /\ UNCHANGED <<wpc, wcmd, reply, replLog>>
            \/ /\ wpc' = "wsleep"
               /\ UNCHANGED <<wrem, wcmd, ptyIn, reply, replLog>>
            \/ /\ SendReply(wcmd.from, R("write_err"), wcmd.seq)
               /\ wpc' = "top"
               /\ wcmd' = NoCmd
               /\ wrem' = <<>>
               /\ UNCHANGED ptyIn
    /\ UNCHANGED <<child, new_child, child_exited, vt, procs, ptyOut, termRuns,
                   queue, sentLog, procLog, cvars, ovars, svars, rvars, lvars, tvars, reaped, bvars>>

\* WriteStep with pty.write's short count taken for the whole payload (write
\* in place of a write-all loop): Ok is replied after the first write.
WriteStep_ShortWrite ==
    /\ wpc = "write"
    /\ IF wrem = <<>>
       THEN /\ SendReply(wcmd.from, R("ok"), wcmd.seq)
            /\ UNCHANGED ptyIn
       ELSE \/ \E n \in 1..Len(wrem) :
                 /\ ptyIn' = [ptyIn EXCEPT ![child] = @ \o SubSeq(wrem, 1, n)]
                 /\ SendReply(wcmd.from, R("ok"), wcmd.seq)
            \/ /\ SendReply(wcmd.from, R("write_err"), wcmd.seq)
               /\ UNCHANGED ptyIn
    /\ wpc' = "top"
    /\ wcmd' = NoCmd
    /\ wrem' = <<>>
    /\ UNCHANGED <<child, new_child, child_exited, vt, procs, ptyOut, termRuns,
                   queue, sentLog, procLog, cvars, ovars, svars, rvars, lvars, tvars, reaped, bvars>>

\* WriteStep whose write error is returned from run_worker, as the read error
\* of the loop top is: the worker ends and the caller gets no reply.
WriteStep_ErrEndsWorker ==
    /\ wpc = "write"
    /\ IF wrem = <<>>
       THEN /\ SendReply(wcmd.from, R("ok"), wcmd.seq)
            /\ wpc' = "top"
            /\ wcmd' = NoCmd
            /\ UNCHANGED <<wrem, ptyIn, queue>>
       ELSE \/ \E n \in 1..Len(wrem) :
                 /\ ptyIn' = [ptyIn EXCEPT ![child] = @ \o SubSeq(wrem, 1, n)]
                 /\ wrem' = SubSeq(wrem, n + 1, Len(wrem))
                 /\ UNCHANGED <<wpc, wcmd, reply, replLog, queue>>
            \/ /\ wpc' = "wsleep"
               /\ UNCHANGED <<wrem, wcmd, ptyIn, reply, replLog, queue>>
            \/ /\ wpc' = "done"
               /\ DropRx
               /\ UNCHANGED <<wrem, wcmd, ptyIn, replLog>>
    /\ UNCHANGED <<child, new_child, child_exited, vt, procs, ptyOut, termRuns,
                   sentLog, procLog, cvars, ovars, svars, rvars, lvars, tvars, reaped, bvars>>

\* One turn of write_all_with_retry's loop, and the reply once it returns.
WriteStep ==
    /\ wpc = "write"
    /\ IF wrem = <<>>
       THEN /\ SendReply(wcmd.from, R("ok"), wcmd.seq)             \* Ok(())
            /\ wpc' = "top"
            /\ wcmd' = NoCmd
            /\ UNCHANGED <<wrem, ptyIn>>
       ELSE \/ \E n \in 1..Len(wrem) :                             \* Ok(n)
                 /\ ptyIn' = [ptyIn EXCEPT ![child] = @ \o SubSeq(wrem, 1, n)]
                 /\ wrem' = SubSeq(wrem, n + 1, Len(wrem))
                 /\ UNCHANGED <<wpc, wcmd, reply, replLog>>
            \/ /\ wpc' = "wsleep"                                  \* Interrupted, WouldBlock
               /\ UNCHANGED <<wrem, wcmd, ptyIn, reply, replLog>>
            \/ /\ SendReply(wcmd.from, R("write_err"), wcmd.seq)   \* Ok(0), Err(err)
               /\ wpc' = "top"
               /\ wcmd' = NoCmd
               /\ wrem' = <<>>
               /\ UNCHANGED ptyIn
    /\ UNCHANGED <<child, new_child, child_exited, vt, procs, ptyOut, termRuns,
                   queue, sentLog, procLog, cvars, ovars, svars, rvars, lvars, tvars, reaped, bvars>>

\* thread::sleep(5 ms) is over: the write is tried again.
WriteRetry ==
    /\ wpc = "wsleep"
    /\ wpc' = "write"
    /\ UNCHANGED <<child, new_child, child_exited, vt, wcmd, wrem, osvars, chvars,
                   cvars, ovars, svars, rvars, lvars, tvars, reaped, bvars>>

\* RecvSnapshot whose drain error is returned like the one of the loop top:
\* the worker ends without a reply.
RecvSnapshot_FatalDrain ==
    /\ wpc = "recv"
    /\ queue # <<>>
    /\ Head(queue).kind = "Snapshot"
    /\ procLog' = Append(procLog, Head(queue).seq)
    /\ IF child_exited
       THEN /\ queue' = Tail(queue)
            /\ SendReply(Head(queue).from, Snap(child, vt), Head(queue).seq)
            /\ wpc' = "top"
            /\ UNCHANGED <<vt, ptyOut>>
       ELSE \/ /\ vt' = vt + ptyOut[child]
               /\ ptyOut' = [ptyOut EXCEPT ![child] = 0]
               /\ queue' = Tail(queue)
               /\ SendReply(Head(queue).from, Snap(child, vt'), Head(queue).seq)
               /\ wpc' = "top"
            \/ /\ wpc' = "done"
               /\ DropRx
               /\ UNCHANGED <<vt, ptyOut, replLog>>
    /\ UNCHANGED <<child, new_child, child_exited, wcmd, wrem, procs, ptyIn,
                   termRuns, sentLog, cvars, ovars, svars, rvars, lvars, tvars, reaped, bvars>>

\* RecvSnapshot that takes the end of file its drain reports for the exit of
\* the child, as the loop top does.
RecvSnapshot_MarksExited ==
    /\ wpc = "recv"
    /\ queue # <<>>
    /\ Head(queue).kind = "Snapshot"
    /\ queue' = Tail(queue)
    /\ procLog' = Append(procLog, Head(queue).seq)
    /\ IF child_exited
       THEN UNCHANGED <<vt, ptyOut, child_exited>>
       ELSE /\ vt' = vt + ptyOut[child]
            /\ ptyOut' = [ptyOut EXCEPT ![child] = 0]
            /\ child_exited' = (procs[child] = "dead")
    /\ SendReply(Head(queue).from, Snap(child, vt'), Head(queue).seq)
    /\ wpc' = "top"
    /\ UNCHANGED <<child, new_child, wcmd, wrem, procs, ptyIn,
                   termRuns, sentLog, cvars, ovars, svars, rvars, lvars, tvars, reaped, bvars>>

\* The Snapshot arm: a best-effort drain whose result is dropped, then the
\* snapshot of the current emulator.
RecvSnapshot ==
    /\ wpc = "recv"
    /\ queue # <<>>
    /\ Head(queue).kind = "Snapshot"
    /\ queue' = Tail(queue)
    /\ procLog' = Append(procLog, Head(queue).seq)
    /\ IF child_exited
       THEN UNCHANGED <<vt, ptyOut>>
       ELSE \/ /\ vt' = vt + ptyOut[child]             \* Ok(_): all of it is fed
               /\ ptyOut' = [ptyOut EXCEPT ![child] = 0]
            \/ \E n \in 0..(ptyOut[child] - 1) :         \* Err(_) after n chunks
                 /\ vt' = vt + n
                 /\ ptyOut' = [ptyOut EXCEPT ![child] = @ - n]
            \/ /\ ptyOut[child] = 0                     \* Err(_) at the first read
               /\ UNCHANGED <<vt, ptyOut>>
    /\ SendReply(Head(queue).from, Snap(child, vt'), Head(queue).seq)
    /\ wpc' = "top"
    /\ UNCHANGED <<child, new_child, child_exited, wcmd, wrem, procs, ptyIn,
                   termRuns, sentLog, cvars, ovars, svars, rvars, lvars, tvars, reaped, bvars>>

\* recv_timeout returned a Reset.
RecvReset ==
    /\ wpc = "recv"
    /\ queue # <<>>
    /\ Head(queue).kind = "Reset"
    /\ queue' = Tail(queue)
    /\ procLog' = Append(procLog, Head(queue).seq)
    /\ wcmd' = Head(queue)
    /\ wpc' = "reset"
    /\ UNCHANGED <<child, new_child, child_exited, vt, wrem, osvars, reply, sentLog,
                   replLog, cvars, ovars, svars, rvars, lvars, tvars, reaped, bvars>>

\* ResetSpawn with the old child terminated before the replacement is spawned.
ResetSpawn_TerminateFirst ==
    /\ wpc = "reset"
    /\ termRuns' = [termRuns EXCEPT ![child] = @ + 1]
    /\ \/ /\ SendReply(wcmd.from, R("spawn_err"), wcmd.seq)
          /\ procs' = [procs EXCEPT ![child] = "dead"]
          /\ wpc' = "top"
          /\ wcmd' = NoCmd
          /\ UNCHANGED new_child
          /\ UNCHANGED sizes
       \/ /\ NextGen \in Gens
          /\ procs' = [procs EXCEPT ![child] = "dead", ![NextGen] = "running"]
          /\ sizes' = [sizes EXCEPT ![NextGen] = Sz(cols, rows)]
          /\ new_child' = NextGen
          /\ wpc' = "reset_swap"
          /\ UNCHANGED <<wcmd, reply, replLog>>
    /\ UNCHANGED <<child, child_exited, vt, wrem, ptyIn, ptyOut,
                   queue, sentLog, procLog, cvars, ovars, options, cols, rows, ready, sres,
                   rvars, lvars, tvars, reaped, bvars>>

\* ResetSpawn passing (rows, cols) where (cols, rows) is expected.
ResetSpawn_SwappedSize ==
    /\ wpc = "reset"
    /\ \/ /\ SendReply(wcmd.from, R("spawn_err"), wcmd.seq)
          /\ wpc' = "top"
          /\ wcmd' = NoCmd
          /\ UNCHANGED <<new_child, procs, sizes>>
       \/ /\ NextGen \in Gens
          /\ procs' = [procs EXCEPT ![NextGen] = "running"]
          /\ sizes' = [sizes EXCEPT ![NextGen] = Sz(rows, cols)]
          /\ new_child' = NextGen
          /\ wpc' = "reset_term"
          /\ UNCHANGED <<wcmd, reply, replLog>>
    /\ UNCHANGED <<child, child_exited, vt, wrem, ptyIn, ptyOut, termRuns,
                   queue, sentLog, procLog, cvars, ovars, options, cols, rows, ready, sres,
                   rvars, lvars, tvars, reaped, bvars>>

\* ResetSpawn that clears the exit flag before it tries the spawn, so that a
\* failed Reset forgets the exit that was observed.
ResetSpawn_ClearsFlagFirst ==
    /\ wpc = "reset"
    /\ child_exited' = FALSE
    /\ \/ /\ SendReply(wcmd.from, R("spawn_err"), wcmd.seq)
          /\ wpc' = "top"
          /\ wcmd' = NoCmd
          /\ UNCHANGED <<new_child, procs, sizes>>
       \/ /\ NextGen \in Gens
          /\ procs' = [procs EXCEPT ![NextGen] = "running"]
          /\ sizes' = [sizes EXCEPT ![NextGen] = Sz(cols, rows)]
          /\ new_child' = NextGen
          /\ wpc' = "reset_term"
          /\ UNCHANGED <<wcmd, reply, replLog>>
    /\ UNCHANGED <<child, vt, wrem, ptyIn, ptyOut, termRuns,
                   queue, sentLog, procLog, cvars, ovars, options, cols, rows, ready, sres,
                   rvars, lvars, tvars, reaped, bvars>>

\* spawn_terminal_parts(..)?: on an error the closure returns it and the arm
\* replies with it; on success the replacement exists beside the old triple.
ResetSpawn ==
    /\ wpc = "reset"
    /\ \/ /\ SendReply(wcmd.from, R("spawn_err"), wcmd.seq)
          /\ wpc' = "top"
          /\ wcmd' = NoCmd
          /\ UNCHANGED <<new_child, procs, sizes>>
       \/ /\ NextGen \in Gens
          /\ procs' = [procs EXCEPT ![NextGen] = "running"]
          /\ sizes' = [sizes EXCEPT ![NextGen] = Sz(cols, rows)]
          /\ new_child' = NextGen
          /\ wpc' = "reset_term"
          /\ UNCHANGED <<wcmd, reply, replLog>>
    /\ UNCHANGED <<child, child_exited, vt, wrem, ptyIn, ptyOut, termRuns,
                   queue, sentLog, procLog, cvars, ovars, options, cols, rows, ready, sres,
                   rvars, lvars, tvars, reaped, bvars>>

\* ResetTerminate with the termination of the old child left out.
ResetTerminate_Skip ==
    /\ wpc = "reset_term"
    /\ wpc' = "reset_swap"
    /\ UNCHANGED <<child, new_child, child_exited, vt, wcmd, wrem, osvars,
                   chvars, cvars, ovars, svars, rvars, lvars, tvars, reaped, bvars>>

\* terminate_bash_and_children(&mut child) on the old child.
ResetTerminate ==
    /\ wpc = "reset_term"
    /\ Terminate(child)
    /\ wpc' = "reset_swap"
    /\ UNCHANGED <<child, new_child, child_exited, vt, wcmd, wrem, ptyIn, ptyOut,
                   chvars, cvars, ovars, svars, rvars, lvars, tvars, reaped, bvars>>

\* ResetSwap that keeps the old emulator.
ResetSwap_KeepScreen ==
    /\ wpc = "reset_swap"
    /\ child' = new_child
    /\ new_child' = 0
    /\ child_exited' = FALSE
    /\ reaped' = FALSE
    /\ SendReply(wcmd.from, R("ok"), wcmd.seq)
    /\ wcmd' = NoCmd
    /\ wpc' = "top"
    /\ UNCHANGED <<vt, wrem, osvars, queue, sentLog, procLog, cvars, ovars, svars, rvars,
                   lvars, tvars, bvars>>

\* pty = new_pty; child = new_child; vt = new_vt; child_exited = false; then
\* ack.send(Ok(())).
ResetSwap ==
    /\ wpc = "reset_swap"
    /\ child' = new_child
    /\ new_child' = 0
    /\ vt' = 0
    /\ child_exited' = FALSE
    /\ reaped' = FALSE
    /\ SendReply(wcmd.from, R("ok"), wcmd.seq)
    /\ wcmd' = NoCmd
    /\ wpc' = "top"
    /\ UNCHANGED <<wrem, osvars, queue, sentLog, procLog, cvars, ovars, svars, rvars, lvars, tvars, bvars>>

\* RecvShutdown without the acknowledgement.
RecvShutdown_NoAck ==
    /\ wpc = "recv"
    /\ queue # <<>>
    /\ Head(queue).kind = "Shutdown"
    /\ queue' = Tail(queue)
    /\ procLog' = Append(procLog, Head(queue).seq)
    /\ wpc' = "term"
    /\ UNCHANGED <<child, new_child, child_exited, vt, wcmd, wrem, osvars, sentLog,
                   reply, replLog, cvars, ovars, svars, rvars, lvars, tvars, reaped, bvars>>

\* RecvShutdown that acknowledges and stays in the loop (`running` is left
\* true), so that what is queued behind the Shutdown is served.
RecvShutdown_KeepRunning ==
    /\ wpc = "recv"
    /\ queue # <<>>
    /\ Head(queue).kind = "Shutdown"
    /\ queue' = Tail(queue)
    /\ procLog' = Append(procLog, Head(queue).seq)
    /\ SendReply(Head(queue).from, R("ok"), Head(queue).seq)
    /\ wpc' = "top"
    /\ UNCHANGED <<child, new_child, child_exited, vt, wcmd, wrem, osvars, sentLog,
                   cvars, ovars, svars, rvars, lvars, tvars, reaped, bvars>>

\* The Shutdown arm: acknowledge, running = false.
RecvShutdown ==
    /\ wpc = "recv"
    /\ queue # <<>>
    /\ Head(queue).kind = "Shutdown"
    /\ queue' = Tail(queue)
    /\ procLog' = Append(procLog, Head(queue).seq)
    /\ SendReply(Head(queue).from, R("ok"), Head(queue).seq)
    /\ wpc' = "term"
    /\ UNCHANGED <<child, new_child, child_exited, vt, wcmd, wrem, osvars, sentLog,
                   cvars, ovars, svars, rvars, lvars, tvars, reaped, bvars>>

\* RecvTimeout of a receive without a timeout: the worker stays in the wait.
RecvTimeout_Blocking ==
    /\ wpc = "recv"
    /\ queue = <<>>
    /\ Senders > 0
    /\ UNCHANGED vars

\* Err(RecvTimeoutError::Timeout): nothing arrived within WORKER_TICK.
RecvTimeout ==
    /\ wpc = "recv"
    /\ queue = <<>>
    /\ Senders > 0
    /\ wpc' = "top"
    /\ UNCHANGED <<child, new_child, child_exited, vt, wcmd, wrem, osvars, chvars,
                   cvars, ovars, svars, rvars, lvars, tvars, reaped, bvars>>

\* Err(RecvTimeoutError::Disconnected): running = false.
RecvDisconnected ==
    /\ wpc = "recv"
    /\ queue = <<>>
    /\ Senders = 0
    /\ wpc' = "term"
    /\ UNCHANGED <<child, new_child, child_exited, vt, wcmd, wrem, osvars, chvars,
                   cvars, ovars, svars, rvars, lvars, tvars, reaped, bvars>>

\* WorkerExit that ends the thread without the termination sequence.
WorkerExit_SkipTerminate ==
    /\ wpc = "term"
    /\ wpc' = "done"
    /\ DropRx
    /\ UNCHANGED <<child, new_child, child_exited, vt, wcmd, wrem, osvars,
                   sentLog, procLog, replLog, cvars, ovars, svars, rvars, lvars, tvars, reaped, bvars>>

\* After the loop: terminate_bash_and_children(&mut child); Ok(()).
WorkerExit ==
    /\ wpc = "term"
    /\ Terminate(child)
    /\ wpc' = "done"
    /\ DropRx
    /\ UNCHANGED <<child, new_child, child_exited, vt, wcmd, wrem, ptyIn, ptyOut,
                   sentLog, procLog, replLog, cvars, ovars, svars, rvars, lvars, tvars, reaped, bvars>>

WorkerNext ==
    \/ DrainTop \/ PollExit
    \/ RecvSendInput \/ WriteStep \/ WriteRetry
    \/ RecvSnapshot
    \/ RecvReset \/ ResetSpawn \/ ResetTerminate \/ ResetSwap
    \/ RecvShutdown \/ RecvTimeout \/ RecvDisconnected
    \/ WorkerExit


\* ---------------------------------------------------------------- execution gate
\* Return that releases the token only when the call succeeded.
Return_HoldOnError(c, res) ==
    /\ cpc' = [cpc EXCEPT ![c] = "idle"]
    /\ cres' = [cres EXCEPT ![c] = res]
    /\ ccall' = [ccall EXCEPT ![c] = NoCall]
    /\ execution_lock' = IF execution_lock = c /\ res \in {"ok", "denied"}
                         THEN "free" ELSE execution_lock

\* A gated call ends: `_lock` is dropped with the future's frame.
Return(c, res) ==
    /\ cpc' = [cpc EXCEPT ![c] = "idle"]
    /\ cres' = [cres EXCEPT ![c] = res]
    /\ ccall' = [ccall EXCEPT ![c] = NoCall]
    /\ execution_lock' = IF execution_lock = c THEN "free" ELSE execution_lock

\* Characters are one-character strings; a string is a sequence of them.
\* The printable ASCII characters in code order, U+0020 to U+007E.
Printable == <<
    " ", "!", "\"", "#", "$", "%", "&", "'", "(", ")", "*", "+",
    ",", "-", ".", "/", "0", "1", "2", "3", "4", "5", "6", "7",
    "8", "9", ":", ";", "<", "=", ">", "?", "@", "A", "B", "C",
    "D", "E", "F", "G", "H", "I", "J", "K", "L", "M", "N", "O",
    "P", "Q", "R", "S", "T", "U", "V", "W", "X", "Y", "Z", "[",
    "\\", "]", "^", "_", "backtick", "a", "b", "c", "d", "e", "f", "g",
    "h", "i", "j", "k", "l", "m", "n", "o", "p", "q", "r", "s",
    "t", "u", "v", "w", "x", "y", "z", "{", "|", "}", "~" >>

\* `byte as char` for a byte of 0x20..=0x7e, and the code of such a character.
Chr(byte) == Printable[byte - 31]
IsPrintable(ch) == \E k \in 1..Len(Printable) : Printable[k] = ch
Code(ch) == 31 + CHOOSE k \in 1..Len(Printable) : Printable[k] = ch

\* char::to_digit(16), -1 for None.
to_digit(ch) ==
    IF ~IsPrintable(ch) THEN -1
    ELSE IF Code(ch) \in 48..57 THEN Code(ch) - 48
    ELSE IF Code(ch) \in 65..70 THEN Code(ch) - 55
    ELSE IF Code(ch) \in 97..102 THEN Code(ch) - 87
    ELSE -1

\* char::encode_utf8(..).as_bytes()
encode_utf8(ch) ==
    IF IsPrintable(ch) THEN <<Code(ch)>>
    ELSE CASE ch = "\n" -> <<10>> [] ch = "\t" -> <<9>> [] ch = "\r" -> <<13>>
           [] ch = "e_acute" -> <<195, 169>>
           [] ch = "nbsp" -> <<194, 160>>
           [] OTHER -> <<63>>

DecodeOk(out) == [ok |-> TRUE, bytes |-> out, err |-> "none"]
DecodeErr(e) == [ok |-> FALSE, bytes |-> <<>>, err |-> e]

\* The loop of decode_terminal_input from position i (1-based) with `out`.
RECURSIVE DecodeFrom(_, _, _)
DecodeFrom(chars, i, out) ==
    IF i > Len(chars) THEN DecodeOk(out)
    ELSE IF chars[i] = "\\"
    THEN IF i + 1 > Len(chars) THEN DecodeErr("dangling")
         ELSE LET e == chars[i + 1] IN
              CASE e = "n" -> DecodeFrom(chars, i + 2, Append(out, 10))
                [] e = "r" -> DecodeFrom(chars, i + 2, Append(out, 13))
                [] e = "t" -> DecodeFrom(chars, i + 2, Append(out, 9))
                [] e = "\\" -> DecodeFrom(chars, i + 2, Append(out, 92))
                [] e = "x" ->
                     IF i + 3 > Len(chars) THEN DecodeErr("hex_missing")
                     ELSE IF to_digit(chars[i + 2]) = -1 THEN DecodeErr("hex_first")
                     ELSE IF to_digit(chars[i + 3]) = -1 THEN DecodeErr("hex_second")
                     ELSE DecodeFrom(chars, i + 4,
                              Append(out, (to_digit(chars[i + 2]) * 16 + to_digit(chars[i + 3])) % 256))
                [] OTHER -> DecodeErr("unsupported")
    ELSE DecodeFrom(chars, i + 1, out \o encode_utf8(chars[i]))

decode_terminal_input(spec) == DecodeFrom(spec, 1, <<>>)

\* One digit of `{byte:02X}`.
HexDigit(n) == IF n < 10 THEN Chr(48 + n) ELSE Chr(55 + n)

\* The match of render_bytes with a backslash left to the printable arm.
RenderByte_RawBackslash(byte) ==
    IF byte = 10 THEN <<"\\", "n">>
    ELSE IF byte = 13 THEN <<"\\", "r">>
    ELSE IF byte = 9 THEN <<"\\", "t">>
    ELSE IF byte \in 32..126 THEN <<Chr(byte)>>
    ELSE <<"\\", "x", HexDigit(byte \div 16), HexDigit(byte % 16)>>

\* The match of render_bytes on one byte, arm by arm.
RenderByte(byte) ==
    IF byte = 92 THEN <<"\\", "\\">>
    ELSE IF byte = 10 THEN <<"\\", "n">>
    ELSE IF byte = 13 THEN <<"\\", "r">>
    ELSE IF byte = 9 THEN <<"\\", "t">>
    ELSE IF byte \in 32..126 THEN <<Chr(byte)>>
    ELSE <<"\\", "x", HexDigit(byte \div 16), HexDigit(byte % 16)>>

\* render_bytes: the loop over the bytes.
RECURSIVE render_bytes(_)
render_bytes(bytes) ==
    IF bytes = <<>> THEN <<>>
    ELSE RenderByte(Head(bytes)) \o render_bytes(Tail(bytes))

\* validate_wait_seconds without the sign check.
validate_wait_seconds_NoSign(w) == IF w \in {"nan", "inf"} THEN "not_finite" ELSE "ok"

\* validate_wait_seconds: is_finite, then >= 0.0.
validate_wait_seconds(w) ==
    IF w \in {"nan", "inf"} THEN "not_finite"
    ELSE IF w = "neg" THEN "negative"
    ELSE "ok"

\* The wait values a caller can pass: the agent's tool argument is any f64,
\* the REPL passes wait_ms as seconds.
WaitInputs(c) == IF c = Agent THEN {"neg", "nan", "inf", "zero", "pos"} ELSE {"zero", "pos"}

\* The escaped input specs tried.
SpecInputs ==
    { <<>>, <<"a">>, <<"a", "q">>, <<"\\", "n">>, <<"\\", "x", "4", "1">>,
      <<"e_acute">>, <<"a", "\\", "x", "f", "F">>,
      <<"\\">>, <<"a", "\\">>,
      <<"\\", "x">>, <<"a", "\\", "x", "4">>, <<"\\", "x", "g", "1">>, <<"\\", "x", "4", "g">>,
      <<"\\", "q">>, <<"a", "\\", "q">> }

\* What precedes the gate: RawInputTool::call (validate_wait_seconds, then
\* decode_terminal_input) and the validate_wait_seconds of execute_tool_call
\* for the agent; send_raw_input (non-empty spec, decode_terminal_input) and
\* the validate_wait_seconds of execute_user_input for the user's :raw.
PreGate(c, spec, wait) ==
    LET d == decode_terminal_input(spec)
        v == IF validate_wait_seconds(wait) = "ok" THEN "ok" ELSE "input_err"
    IN IF c = Agent
       THEN (IF v # "ok" THEN v ELSE IF ~d.ok THEN "decode_err" ELSE "ok")
       ELSE (IF spec = <<>> THEN "usage_err" ELSE IF ~d.ok THEN "decode_err" ELSE v)

\* GatedCall that sends what it decoded before it looks at the decoding error.
GatedCall_SendBeforeCheck(c) ==
    /\ cpc[c] = "idle"
    /\ calls[c] > 0
    /\ calls' = [calls EXCEPT ![c] = @ - 1]
    /\ \E wait \in WaitInputs(c), spec \in SpecInputs :
        LET d == decode_terminal_input(spec) IN
        /\ Len(d.bytes) <= MaxLen
        /\ IF PreGate(c, spec, wait) # "ok"
           THEN /\ cres' = [cres EXCEPT ![c] = PreGate(c, spec, wait)]
                /\ IF RxAlive /\ ~d.ok
                   THEN Enqueue("SendInput", c, Payload(Len(sentLog) + 1, 1))
                   ELSE UNCHANGED <<queue, sentLog>>
                /\ UNCHANGED <<cpc, ccall>>
           ELSE /\ cpc' = [cpc EXCEPT ![c] = "lock"]
                /\ ccall' = [ccall EXCEPT ![c] =
                        [kind |-> "gated", wait |-> wait, len |-> Len(d.bytes), answer |-> NotAsked]]
                /\ UNCHANGED <<cres, queue, sentLog>>
    /\ UNCHANGED <<wvars, osvars, reply, procLog, replLog, execution_lock, yolo, ovars, svars, rvars, lvars, tvars, reaped, bvars>>

\* A gated call begins: the agent's raw_input tool call or the user's :raw.
\* Whatever fails before the gate returns its error at once.
GatedCall(c) ==
    /\ cpc[c] = "idle"
    /\ calls[c] > 0
    /\ calls' = [calls EXCEPT ![c] = @ - 1]
    /\ \E wait \in WaitInputs(c), spec \in SpecInputs :
        LET d == decode_terminal_input(spec) IN
        /\ Len(d.bytes) <= MaxLen
        /\ IF PreGate(c, spec, wait) # "ok"
           THEN /\ cres' = [cres EXCEPT ![c] = PreGate(c, spec, wait)]
                /\ UNCHANGED <<cpc, ccall>>
           ELSE /\ cpc' = [cpc EXCEPT ![c] = "lock"]
                /\ ccall' = [ccall EXCEPT ![c] =
                        [kind |-> "gated", wait |-> wait, len |-> Len(d.bytes), answer |-> NotAsked]]
                /\ UNCHANGED cres
    /\ UNCHANGED <<wvars, osvars, chvars, execution_lock, yolo, ovars, svars, rvars, lvars, tvars, reaped, bvars>>

\* LockAcquire with a lock that excludes nobody.
LockAcquire_NoExclusion(c) ==
    /\ cpc[c] = "lock"
    /\ execution_lock' = c
    /\ cpc' = [cpc EXCEPT ![c] = IF c = Agent THEN "confirm" ELSE "send"]
    /\ UNCHANGED <<wvars, osvars, chvars, yolo, ccall, calls, cres, ovars, svars, rvars, lvars, tvars, reaped, bvars>>

\* LockAcquire after which the user's injection is put to the confirmation
\* like the agent's.
LockAcquire_UserConfirms(c) ==
    /\ cpc[c] = "lock"
    /\ execution_lock = "free"
    /\ execution_lock' = c
    /\ cpc' = [cpc EXCEPT ![c] = "confirm"]
    /\ UNCHANGED <<wvars, osvars, chvars, yolo, ccall, calls, cres, ovars, svars, rvars, lvars, tvars, reaped, bvars>>

\* self.execution_lock.lock().await
LockAcquire(c) ==
    /\ cpc[c] = "lock"
    /\ execution_lock = "free"
    /\ execution_lock' = c
    /\ cpc' = [cpc EXCEPT ![c] = IF c = Agent THEN "confirm" ELSE "send"]
    /\ UNCHANGED <<wvars, osvars, chvars, yolo, ccall, calls, cres, ovars, svars, rvars, lvars, tvars, reaped, bvars>>

IsSpace(ch) == ch \in {" ", "\n", "\r", "\t", "nbsp"}

\* str::trim: leading and trailing whitespace removed.
RECURSIVE trim_start(_)
trim_start(s) == IF s # <<>> /\ IsSpace(Head(s)) THEN trim_start(Tail(s)) ELSE s
RECURSIVE trim_end(_)
trim_end(s) ==
    IF s # <<>> /\ IsSpace(s[Len(s)]) THEN trim_end(SubSeq(s, 1, Len(s) - 1)) ELSE s
trim(s) == trim_end(trim_start(s))

\* str::to_ascii_lowercase
lower(ch) ==
    CASE ch = "Y" -> "y" [] ch = "E" -> "e" [] ch = "S" -> "s" [] ch = "N" -> "n"
      [] OTHER -> ch
to_ascii_lowercase(s) == [i \in 1..Len(s) |-> lower(s[i])]

\* The closure of maybe_confirm on the line read from stdin.
confirmed(answer) ==
    to_ascii_lowercase(trim(answer)) \in {<<"y">>, <<"y", "e", "s">>}

\* The lines read_line can return (end of input returns the empty string).
AnswerInputs ==
    { <<"y", "\n">>, <<" ", "Y", "e", "S", " ", "\n">>,
      <<>>, <<"\n">>, <<"n", "\n">>, <<"y", "e", "\n">>, <<"y", " ", "e", "s", "\n">> }

\* MaybeConfirm that takes an empty answer for the default and approves.
MaybeConfirm_EmptyIsYes(c) ==
    /\ cpc[c] = "confirm"
    /\ IF yolo
       THEN /\ cpc' = [cpc EXCEPT ![c] = "send"]
            /\ UNCHANGED <<cres, ccall, execution_lock>>
       ELSE \/ \E answer \in AnswerInputs :
                 /\ ccall' = [ccall EXCEPT ![c].answer = answer]
                 /\ cpc' = [cpc EXCEPT ![c] =
                        IF confirmed(answer) \/ trim(answer) = <<>> THEN "send" ELSE "deny"]
                 /\ UNCHANGED <<cres, execution_lock>>
            \/ Return(c, "confirm_err")
    /\ UNCHANGED <<wvars, osvars, chvars, yolo, calls, ovars, svars, rvars, lvars, tvars, reaped, bvars>>

\* maybe_confirm: true under yolo with nothing asked; else the decision on
\* the answer read from stdin, or the error of reading it.
MaybeConfirm(c) ==
    /\ cpc[c] = "confirm"
    /\ IF yolo
       THEN /\ cpc' = [cpc EXCEPT ![c] = "send"]
            /\ UNCHANGED <<cres, ccall, execution_lock>>
       ELSE \/ \E answer \in AnswerInputs :
                 /\ ccall' = [ccall EXCEPT ![c].answer = answer]
                 /\ cpc' = [cpc EXCEPT ![c] = IF confirmed(answer) THEN "send" ELSE "deny"]
                 /\ UNCHANGED <<cres, execution_lock>>
            \/ Return(c, "confirm_err")
    /\ UNCHANGED <<wvars, osvars, chvars, yolo, calls, ovars, svars, rvars, lvars, tvars, reaped, bvars>>

\* execute_locked: self.session.send_input(bytes), the send half.
SendInputCall(c) ==
    /\ cpc[c] = "send"
    /\ IF RxAlive
       THEN /\ Enqueue("SendInput", c, Payload(Len(sentLog) + 1, ccall[c].len))
            /\ cpc' = [cpc EXCEPT ![c] = "await_ack"]
            /\ UNCHANGED <<cres, ccall, execution_lock>>
       ELSE /\ Return(c, "not_running")
            /\ UNCHANGED <<queue, sentLog>>
    /\ UNCHANGED <<wvars, osvars, reply, procLog, replLog, yolo, calls, ovars, svars, rvars, lvars, tvars, reaped, bvars>>

\* AwaitAck that goes to the snapshot without the wait.
AwaitAck_NoWait(c) ==
    /\ cpc[c] = "await_ack"
    /\ reply[c] # NoReply
    /\ reply' = [reply EXCEPT ![c] = NoReply]
    /\ IF reply[c].tag = "ok"
       THEN /\ cpc' = [cpc EXCEPT ![c] = "snap"]
            /\ UNCHANGED <<cres, ccall, execution_lock>>
       ELSE Return(c, reply[c].tag)
    /\ UNCHANGED <<wvars, osvars, queue, sentLog, procLog, replLog, yolo, calls, ovars, svars, rvars, lvars, tvars, reaped, bvars>>

\* send_input's ack_rx.await, then the `?` of execute_locked.
AwaitAck(c) ==
    /\ cpc[c] = "await_ack"
    /\ reply[c] # NoReply
    /\ reply' = [reply EXCEPT ![c] = NoReply]
    /\ IF reply[c].tag = "ok"
       THEN /\ cpc' = [cpc EXCEPT ![c] = IF ccall[c].wait = "pos" THEN "sleep" ELSE "snap"]
            /\ UNCHANGED <<cres, ccall, execution_lock>>
       ELSE Return(c, reply[c].tag)
    /\ UNCHANGED <<wvars, osvars, queue, sentLog, procLog, replLog, yolo, calls, ovars, svars, rvars, lvars, tvars, reaped, bvars>>

\* tokio::time::sleep(wait_seconds) is over.
Sleep(c) ==
    /\ cpc[c] = "sleep"
    /\ cpc' = [cpc EXCEPT ![c] = "snap"]
    /\ UNCHANGED <<wvars, osvars, chvars, execution_lock, yolo, ccall, calls, cres, ovars, svars, rvars, lvars, tvars, reaped, bvars>>

\* SnapshotCall that, on a denial, injects the bytes before the snapshot.
SnapshotCall_DenyInjects(c) ==
    /\ cpc[c] \in {"snap", "deny"}
    /\ IF RxAlive
       THEN /\ IF cpc[c] = "snap"
               THEN /\ Enqueue("Snapshot", c, <<>>)
                    /\ cpc' = [cpc EXCEPT ![c] = "await_snap"]
               ELSE /\ Enqueue("SendInput", c, Payload(Len(sentLog) + 1, ccall[c].len))
                    /\ cpc' = [cpc EXCEPT ![c] = "await_ack"]
            /\ UNCHANGED <<cres, ccall, execution_lock>>
       ELSE /\ Return(c, "not_running")
            /\ UNCHANGED <<queue, sentLog>>
    /\ UNCHANGED <<wvars, osvars, reply, procLog, replLog, yolo, calls, ovars, svars, rvars, lvars, tvars, reaped, bvars>>

\* self.session.snapshot(), the send half: after the injection, or after a
\* denial.
SnapshotCall(c) ==
    /\ cpc[c] \in {"snap", "deny"}
    /\ IF RxAlive
       THEN /\ Enqueue("Snapshot", c, <<>>)
            /\ cpc' = [cpc EXCEPT ![c] = IF cpc[c] = "snap" THEN "await_snap" ELSE "await_deny"]
            /\ UNCHANGED <<cres, ccall, execution_lock>>
       ELSE /\ Return(c, "not_running")
            /\ UNCHANGED <<queue, sentLog>>
    /\ UNCHANGED <<wvars, osvars, reply, procLog, replLog, yolo, calls, ovars, svars, rvars, lvars, tvars, reaped, bvars>>

\* snapshot's snap_rx.await; the gated call returns the rendering.
AwaitSnap(c) ==
    /\ cpc[c] \in {"await_snap", "await_deny"}
    /\ reply[c] # NoReply
    /\ reply' = [reply EXCEPT ![c] = NoReply]
    /\ Return(c, IF reply[c].tag # "snap" THEN reply[c].tag
                 ELSE IF cpc[c] = "await_snap" THEN "ok" ELSE "denied")
    /\ UNCHANGED <<wvars, osvars, queue, sentLog, procLog, replLog, yolo, calls, ovars, svars, rvars, lvars, tvars, reaped, bvars>>

\* ---------------------------------------------------------------- direct calls
\* TerminalSession::snapshot / reset (the REPL's :snap and :reset), through
\* TerminalSessionHandle: the send half.
DirectCall(c) ==
    /\ c = User
    /\ cpc[c] = "idle"
    /\ calls[c] > 0
    /\ calls' = [calls EXCEPT ![c] = @ - 1]
    /\ \E kind \in {"Snapshot", "Reset"} :
        IF RxAlive
        THEN /\ Enqueue(kind, c, <<>>)
             /\ cpc' = [cpc EXCEPT ![c] = "await_direct"]
             /\ ccall' = [ccall EXCEPT ![c] =
                     [kind |-> kind, wait |-> "zero", len |-> 0, answer |-> NotAsked]]
             /\ UNCHANGED cres
        ELSE /\ cres' = [cres EXCEPT ![c] = "not_running"]
             /\ UNCHANGED <<queue, sentLog, cpc, ccall>>
    /\ UNCHANGED <<wvars, osvars, reply, procLog, replLog, execution_lock, yolo, ovars, svars, rvars, lvars, tvars, reaped, bvars>>

\* The await half of snapshot / reset.
AwaitDirect(c) ==
    /\ cpc[c] = "await_direct"
    /\ reply[c] # NoReply
    /\ reply' = [reply EXCEPT ![c] = NoReply]
    /\ Return(c, IF reply[c].tag = "snap" THEN "ok" ELSE reply[c].tag)
    /\ UNCHANGED <<wvars, osvars, queue, sentLog, procLog, replLog, yolo, calls, ovars, svars, rvars, lvars, tvars, reaped, bvars>>

\* ---------------------------------------------------------------- TerminalSession::shutdown
\* ShutdownCall reading self.worker without taking it.
ShutdownCall_NoTake ==
    /\ opc = "idle"
    /\ shutdowns < MaxShutdowns
    /\ shutdowns' = shutdowns + 1
    /\ IF worker = "none"
       THEN UNCHANGED <<opc, worker, queue, sentLog, reply>>
       ELSE /\ UNCHANGED worker
            /\ opc' = "sd_ack"
            /\ IF RxAlive
               THEN /\ Enqueue("Shutdown", Owner, <<>>)
                    /\ UNCHANGED reply
               ELSE /\ reply' = [reply EXCEPT ![Owner] = R("dropped")]
                    /\ UNCHANGED <<queue, sentLog>>
    /\ UNCHANGED <<wvars, osvars, procLog, replLog, cvars, svars, rvars, lvars, tvars, reaped, bvars>>

\* self.worker.take(): None returns Ok at once; else the Shutdown is sent
\* (a failed send drops the command and its ack sender).
ShutdownCall ==
    /\ opc = "idle"
    /\ shutdowns < MaxShutdowns
    /\ shutdowns' = shutdowns + 1
    /\ IF worker = "none"
       THEN UNCHANGED <<opc, worker, queue, sentLog, reply>>
       ELSE /\ worker' = "none"
            /\ opc' = "sd_ack"
            /\ IF RxAlive
               THEN /\ Enqueue("Shutdown", Owner, <<>>)
                    /\ UNCHANGED reply
               ELSE /\ reply' = [reply EXCEPT ![Owner] = R("dropped")]
                    /\ UNCHANGED <<queue, sentLog>>
    /\ UNCHANGED <<wvars, osvars, procLog, replLog, cvars, svars, rvars, lvars, tvars, reaped, bvars>>

\* timeout(1 s, ack_rx): the acknowledgement, or the closed channel, arrived.
ShutdownAck ==
    /\ opc = "sd_ack"
    /\ reply[Owner] # NoReply
    /\ reply' = [reply EXCEPT ![Owner] = NoReply]
    /\ opc' = "sd_join"
    /\ UNCHANGED <<wvars, osvars, queue, sentLog, procLog, replLog, cvars, worker, shutdowns, svars, rvars, lvars, tvars, reaped, bvars>>

\* timeout(1 s, ack_rx): the second elapsed first.
ShutdownTimeout ==
    /\ opc = "sd_ack"
    /\ reply[Owner] = NoReply
    /\ opc' = "sd_join"
    /\ UNCHANGED <<wvars, osvars, chvars, cvars, worker, shutdowns, svars, rvars, lvars, tvars, reaped, bvars>>

\* join_worker(worker): returns once the worker thread has ended.
ShutdownJoin ==
    /\ opc = "sd_join"
    /\ wpc = "done"
    /\ opc' = "idle"
    /\ UNCHANGED <<wvars, osvars, chvars, cvars, worker, shutdowns, svars, rvars, lvars, tvars, reaped, bvars>>

OwnerNext == ShutdownCall \/ ShutdownAck \/ ShutdownTimeout \/ ShutdownJoin

\* ---------------------------------------------------------------- drops
\* A TerminalSessionHandle that is not inside a call is dropped, and its
\* clone of cmd_tx with it.
HandleDrop(c) ==
    /\ cpc[c] = "idle"
    /\ cpc' = [cpc EXCEPT ![c] = "gone"]
    /\ UNCHANGED <<wvars, osvars, chvars, execution_lock, yolo, ccall, calls, cres,
                   ovars, svars, rvars, lvars, tvars, reaped, bvars>>

\* Drop for TerminalSession: nothing if shutdown has taken the worker; else a
\* Shutdown is sent (its ack receiver is dropped at once, and a failed send
\* is ignored) and the join handle is dropped; then the fields go, cmd_tx
\* among them.
SessionDrop ==
    /\ opc = "idle"
    /\ opc' = "dropped"
    /\ worker' = "none"
    /\ IF worker = "some" /\ RxAlive
       THEN Enqueue("Shutdown", Owner, <<>>)
       ELSE UNCHANGED <<queue, sentLog>>
    /\ UNCHANGED <<wvars, osvars, reply, procLog, replLog, cvars, shutdowns,
                   svars, rvars, lvars, tvars, reaped, bvars>>

\* ---------------------------------------------------------------- TerminalSession::start
\* parse_usize_env_var: the variable must be there and parse as a usize (a
\* negative input stands for a missing or unparsable value).
parse_usize_env_var(v) == IF v < 0 THEN "err" ELSE "ok"

\* SessionConfig::terminal_size, then the two u16::try_from of run_worker.
terminal_size(o) ==
    IF parse_usize_env_var(o.cols) = "err" \/ parse_usize_env_var(o.rows) = "err" THEN "err"
    ELSE IF ~(o.cols > 0) \/ ~(o.rows > 0) THEN "err"
    ELSE "ok"

u16_try_from(n) == IF n <= U16Max THEN "ok" ELSE "err"

\* thread::Builder::spawn(run_worker): on failure start returns at once and
\* both ends of the channel are dropped.
StartCall ==
    /\ opc = "start"
    /\ \/ /\ wpc' = "setup"
          /\ opc' = "start_ready"
          /\ UNCHANGED sres
       \/ /\ wpc' = "done"
          /\ opc' = "dropped"
          /\ sres' = "thread_err"
    /\ UNCHANGED <<child, new_child, child_exited, vt, wcmd, wrem, osvars, chvars, cvars,
                   worker, shutdowns, options, cols, rows, sizes, ready,
                   rvars, lvars, tvars, reaped, bvars>>

\* run_worker before the spawn: terminal_size()? and the u16 conversions; an
\* error returns with ready_tx dropped unsent.
WorkerSize ==
    /\ wpc = "setup"
    /\ IF /\ terminal_size(options) = "ok"
          /\ u16_try_from(options.cols) = "ok"
          /\ u16_try_from(options.rows) = "ok"
       THEN /\ cols' = options.cols
            /\ rows' = options.rows
            /\ wpc' = "spawn"
            /\ UNCHANGED <<ready, queue, reply>>
       ELSE /\ wpc' = "setup_exit"
            /\ ready' = "closed"
            /\ UNCHANGED <<cols, rows>>
    /\ UNCHANGED <<child, new_child, child_exited, vt, wcmd, wrem, osvars,
                   chvars, cvars, ovars, options, sizes, sres,
                   rvars, lvars, tvars, reaped, bvars>>

\* The first spawn_terminal_parts and the readiness signal: Ok(()) and the
\* loop, or the spawn error and return Ok(()).
WorkerSpawn ==
    /\ wpc = "spawn"
    /\ \/ /\ procs' = [procs EXCEPT ![1] = "running"]
          /\ sizes' = [sizes EXCEPT ![1] = Sz(cols, rows)]
          /\ child' = 1
          /\ ready' = "ok"
          /\ wpc' = "top"
       \/ /\ ready' = "err"
          /\ wpc' = "setup_exit"
          /\ UNCHANGED <<procs, sizes, child>>
    /\ UNCHANGED <<new_child, child_exited, vt, wcmd, wrem, ptyIn, ptyOut, termRuns,
                   chvars, cvars, ovars, options, cols, rows, sres,
                   rvars, lvars, tvars, reaped, bvars>>

\* run_worker has returned from its setup: the thread ends, cmd_rx is dropped.
WorkerSetupExit ==
    /\ wpc = "setup_exit"
    /\ wpc' = "done"
    /\ DropRx
    /\ UNCHANGED <<child, new_child, child_exited, vt, wcmd, wrem, osvars,
                   sentLog, procLog, replLog, cvars, ovars, svars, rvars, lvars, tvars, reaped, bvars>>

\* StartReady returning the error without joining the worker thread.
StartReady_NoJoin ==
    /\ opc = "start_ready"
    /\ ready \in {"ok", "err", "closed"}
    /\ IF ready = "ok"
       THEN /\ sres' = "session"
            /\ worker' = "some"
            /\ opc' = "idle"
            /\ ready' = "taken"
            /\ cpc' = [c \in Callers |-> "idle"]
       ELSE /\ sres' = IF ready = "err" THEN "spawn_err" ELSE "exited_err"
            /\ opc' = "dropped"
            /\ UNCHANGED <<worker, ready, cpc>>
    /\ UNCHANGED <<wvars, osvars, chvars, execution_lock, yolo, ccall, calls, cres,
                   shutdowns, options, cols, rows, sizes,
                   rvars, lvars, tvars, reaped, bvars>>

\* ready_rx.await: Ok(Ok(())) makes the session; the two error arms go on to
\* join the worker.
StartReady ==
    /\ opc = "start_ready"
    /\ ready \in {"ok", "err", "closed"}
    /\ IF ready = "ok"
       THEN /\ sres' = "session"
            /\ worker' = "some"
            /\ opc' = "idle"
            /\ ready' = "taken"
            /\ cpc' = [c \in Callers |-> "idle"]
       ELSE /\ opc' = "start_join"
            /\ UNCHANGED <<sres, worker, ready, cpc>>
    /\ UNCHANGED <<wvars, osvars, chvars, execution_lock, yolo, ccall, calls, cres,
                   shutdowns, options, cols, rows, sizes,
                   rvars, lvars, tvars, reaped, bvars>>

\* join_worker(worker) in the error arms, then the error is returned and
\* cmd_tx is dropped with start's frame.
StartJoin ==
    /\ opc = "start_join"
    /\ wpc = "done"
    /\ sres' = IF ready = "err" THEN "spawn_err" ELSE "exited_err"
    /\ opc' = "dropped"
    /\ UNCHANGED <<wvars, osvars, chvars, cvars, worker, shutdowns,
                   options, cols, rows, sizes, ready,
                   rvars, lvars, tvars, reaped, bvars>>

StartNext == StartCall \/ StartReady \/ StartJoin

\* ---------------------------------------------------------------- terminate_bash_and_children
\* The shell is the worker's child; a descendant is what pgroup says.
Running(m) == IF m = 0 THEN procs[child] = "running" ELSE pgroup[m] = "running"

\* signal_process_group(process_group, sig): every running member of the
\* group gets the signal; KILL ends it, TERM ends it unless it ignores TERM.
SignalGroup(sig) ==
    fatal' = fatal \cup {m \in Members : Running(m) /\ (sig = "KILL" \/ m \notin ignores)}

\* wait_for_child_exit(child, timeout).unwrap_or(false): Ok(true) once
\* try_wait sees the exit, Ok(false) at the deadline, Err when try_wait fails;
\* a Child that already holds its exit status returns it without a system
\* call.
WaitResults ==
    IF reaped THEN {"exited"}
    ELSE IF procs[child] = "dead" THEN {"exited", "error"} ELSE {"timeout", "error"}

\* TermEntry without the check at the entry: TERM goes to the process group
\* whatever try_wait returned.
TermEntry_SignalsFirst ==
    /\ wpc = "term"
    /\ tpc = "none"
    /\ \E r \in WaitResults :
        /\ waited' = r
        /\ reaped' = (r = "exited")
        /\ signals' = Append(signals, "TERM_group")
        /\ SignalGroup("TERM")
        /\ tpc' = "term_sent"
    /\ UNCHANGED <<wvars, osvars, chvars, cvars, ovars, svars, rvars, lvars, pgroup, ignores, bvars>>

\* The zero-length wait at the entry, then TERM to the process group.
TermEntry ==
    /\ wpc = "term"
    /\ tpc = "none"
    /\ \E r \in WaitResults :
        /\ waited' = r
        /\ reaped' = (r = "exited")
        /\ IF r = "exited"
           THEN /\ tpc' = "returned"
                /\ UNCHANGED <<signals, fatal>>
           ELSE /\ signals' = Append(signals, "TERM_group")
                /\ SignalGroup("TERM")
                /\ tpc' = "term_sent"
    /\ UNCHANGED <<wvars, osvars, chvars, cvars, ovars, svars, rvars, lvars, pgroup, ignores, bvars>>

\* TermGrace sending the graceful signal a second time.
TermGrace_TermAgain ==
    /\ tpc = "term_sent"
    /\ \E r \in WaitResults :
        /\ waited' = r
        /\ reaped' = (r = "exited")
        /\ IF r = "exited"
           THEN /\ tpc' = "returned"
                /\ UNCHANGED <<signals, fatal>>
           ELSE /\ signals' = Append(signals, "TERM_group")
                /\ SignalGroup("TERM")
                /\ tpc' = "kill_sent"
    /\ UNCHANGED <<wvars, osvars, chvars, cvars, ovars, svars, rvars, lvars, pgroup, ignores, bvars>>

\* The wait of SHUTDOWN_TERM_GRACE, then KILL to the process group.
TermGrace ==
    /\ tpc = "term_sent"
    /\ \E r \in WaitResults :
        /\ waited' = r
        /\ reaped' = (r = "exited")
        /\ IF r = "exited"
           THEN /\ tpc' = "returned"
                /\ UNCHANGED <<signals, fatal>>
           ELSE /\ signals' = Append(signals, "KILL_group")
                /\ SignalGroup("KILL")
                /\ tpc' = "kill_sent"
    /\ UNCHANGED <<wvars, osvars, chvars, cvars, ovars, svars, rvars, lvars, pgroup, ignores, bvars>>

\* The wait of SHUTDOWN_KILL_GRACE, then child.kill().
KillGrace ==
    /\ tpc = "kill_sent"
    /\ \E r \in WaitResults :
        /\ waited' = r
        /\ reaped' = (r = "exited")
        /\ IF r = "exited"
           THEN /\ tpc' = "returned"
                /\ UNCHANGED <<signals, fatal>>
           ELSE /\ signals' = Append(signals, "KILL_child")
                /\ fatal' = fatal \cup {m \in {0} : Running(m)}
                /\ tpc' = "child_killed"
    /\ UNCHANGED <<wvars, osvars, chvars, cvars, ovars, svars, rvars, lvars, pgroup, ignores, bvars>>

\* The last wait, whose result is dropped.
LastWait ==
    /\ tpc = "child_killed"
    /\ \E r \in WaitResults :
        /\ waited' = r
        /\ reaped' = (r = "exited")
    /\ tpc' = "returned"
    /\ UNCHANGED <<wvars, osvars, chvars, cvars, ovars, svars, rvars, lvars,
                   signals, pgroup, ignores, fatal, bvars>>

\* terminate_bash_and_children has returned at the end of run_worker: Ok(()).
TermReturn ==
    /\ wpc = "term"
    /\ tpc = "returned"
    /\ termRuns' = [termRuns EXCEPT ![child] = @ + 1]
    /\ wpc' = "done"
    /\ DropRx
    /\ UNCHANGED <<child, new_child, child_exited, vt, wcmd, wrem, procs, ptyIn, ptyOut,
                   sentLog, procLog, replLog, cvars, ovars, svars, rvars, lvars, tvars, reaped, bvars>>

\* A member of the group that got a signal that ends it, ends.
Die ==
    /\ \E m \in fatal :
        /\ Running(m)
        /\ IF m = 0
           THEN procs' = [procs EXCEPT ![child] = "dead"] /\ UNCHANGED pgroup
           ELSE pgroup' = [pgroup EXCEPT ![m] = "dead"] /\ UNCHANGED procs
    /\ UNCHANGED <<wvars, ptyIn, ptyOut, termRuns, chvars, cvars, ovars, svars, rvars, lvars,
                   tpc, signals, waited, ignores, fatal, reaped, bvars>>

LadderNext == TermEntry \/ TermGrace \/ KillGrace \/ LastWait \/ TermReturn

\* ---------------------------------------------------------------- the REPL
\* Option<String>
Some(v) == [some |-> TRUE, val |-> v]
None == [some |-> FALSE, val |-> <<>>]

\* The command words process_line knows.
RAW == <<":", "r", "a", "w">>
QUIT == <<":", "q", "u", "i", "t">>
Q == <<":", "q">>
HELP == <<":", "h", "e", "l", "p">>
SNAP == <<":", "s", "n", "a", "p">>
RESET == <<":", "r", "e", "s", "e", "t">>

\* str::starts_with
starts_with(s, prefix) == Len(s) >= Len(prefix) /\ SubSeq(s, 1, Len(prefix)) = prefix

\* line.trim_end_matches(&['\r', '\n'][..])
RECURSIVE trim_end_matches_crlf(_)
trim_end_matches_crlf(s) ==
    IF s # <<>> /\ s[Len(s)] \in {"\r", "\n"}
    THEN trim_end_matches_crlf(SubSeq(s, 1, Len(s) - 1)) ELSE s

\* parse_prefixed_arg that takes whatever follows the prefix.
parse_prefixed_arg_NoSeparator(l, prefix) ==
    IF l = prefix THEN Some(<<>>)
    ELSE IF ~starts_with(l, prefix) THEN None
    ELSE Some(trim_start(SubSeq(l, Len(prefix) + 1, Len(l))))

parse_prefixed_arg(l, prefix) ==
    IF l = prefix THEN Some(<<>>)
    ELSE IF ~starts_with(l, prefix) THEN None
    ELSE LET rest == SubSeq(l, Len(prefix) + 1, Len(l)) IN
         IF ~(rest # <<>> /\ IsSpace(rest[1])) THEN None
         ELSE Some(trim_start(rest))

\* Some(PrefixedCommand::Raw(spec)) or None
parse_prefixed_command(l) == parse_prefixed_arg(l, RAW)

\* The arm of process_line a trimmed line takes.
Command(trimmed) ==
    CASE trimmed = <<>> -> [kind |-> "empty", arg |-> <<>>]
      [] trimmed \in {QUIT, Q} -> [kind |-> "quit", arg |-> <<>>]
      [] trimmed = HELP -> [kind |-> "help", arg |-> <<>>]
      [] trimmed = SNAP -> [kind |-> "Snapshot", arg |-> <<>>]
      [] trimmed = RESET -> [kind |-> "Reset", arg |-> <<>>]
      [] OTHER ->
           IF starts_with(trimmed, <<":">>)
           THEN (IF parse_prefixed_command(trimmed).some
                 THEN [kind |-> "raw", arg |-> parse_prefixed_command(trimmed).val]
                 ELSE [kind |-> "unknown", arg |-> <<>>])
           ELSE [kind |-> "prompt", arg |-> trimmed]

\* The lines read_repl_line returns, the newline included (the last line of
\* the input may lack it).
LineInputs ==
    { <<"\n">>, <<"\r", "\n">>,
      Q \o <<"\n">>, QUIT \o <<"\n">>, HELP \o <<"\n">>,
      SNAP \o <<"\n">>, RESET \o <<"\r", "\n">>,
      RAW, RAW \o <<"\n">>, RAW \o <<" ", "\n">>, RAW \o <<"\t", " ", "\n">>,
      RAW \o <<" ", "a", "\n">>, RAW \o <<"\t", "a", "\r", "\n">>,
      RAW \o <<" ", " ", "\\", "n", "\n">>, RAW \o <<" ", "a", " ", "\n">>,
      RAW \o <<" ", "\\", "q", "\n">>,
      RAW \o <<"a", "\n">>, RAW \o <<"\\", "n", "\n">>,
      <<":", "r", "u", "n", " ", "a", "\n">>, <<":">>, <<":", "\n">>,
      SNAP \o <<" ", "\n">>, <<":", "r", "a", " ", "a", "\n">>,
      <<"a", "\n">>, <<" ">> \o RAW \o <<" ", "a", "\n">>, <<" ", "\n">> }

\* process_line up to its first await. Snapshot and Reset go straight to the
\* session; :raw goes through send_raw_input to the gate; any other line that
\* does not start with a colon is prompted to the agent, which may then call
\* its tool.
ProcessLine ==
    /\ cpc[User] = "idle"
    /\ cpc[Agent] = "idle"
    /\ calls[User] > 0
    /\ \E l \in LineInputs, wait \in WaitInputs(User) :
        LET cmd == Command(trim_end_matches_crlf(l))
            d == decode_terminal_input(cmd.arg)
            pre == PreGate(User, cmd.arg, wait)
            less == [calls EXCEPT ![User] = @ - 1]
        IN
        /\ repl_line' = l
        /\ CASE cmd.kind \in {"empty", "help"} ->
                  /\ cres' = [cres EXCEPT ![User] = "continue"]
                  /\ calls' = less
                  /\ UNCHANGED <<cpc, ccall, queue, sentLog, chat_history>>
             [] cmd.kind = "quit" ->
                  /\ cres' = [cres EXCEPT ![User] = "quit"]
                  /\ cpc' = [cpc EXCEPT ![User] = "gone"]
                  /\ calls' = less
                  /\ UNCHANGED <<ccall, queue, sentLog, chat_history>>
             [] cmd.kind \in {"Snapshot", "Reset"} ->
                  /\ calls' = less
                  /\ UNCHANGED chat_history
                  /\ IF RxAlive
                     THEN /\ Enqueue(cmd.kind, User, <<>>)
                          /\ cpc' = [cpc EXCEPT ![User] = "repl_await"]
                          /\ ccall' = [ccall EXCEPT ![User] =
                                  [kind |-> IF cmd.kind = "Reset" THEN "repl_reset" ELSE "repl_snap",
                                   wait |-> "zero", len |-> 0, answer |-> NotAsked]]
                          /\ UNCHANGED cres
                     ELSE /\ cres' = [cres EXCEPT ![User] = "not_running"]
                          /\ cpc' = [cpc EXCEPT ![User] = "gone"]
                          /\ UNCHANGED <<ccall, queue, sentLog>>
             [] cmd.kind = "raw" ->
                  /\ Len(d.bytes) <= MaxLen
                  /\ calls' = less
                  /\ UNCHANGED <<queue, sentLog, chat_history>>
                  /\ IF pre # "ok"
                     THEN /\ cres' = [cres EXCEPT ![User] = pre]
                          /\ UNCHANGED <<cpc, ccall>>
                     ELSE /\ cpc' = [cpc EXCEPT ![User] = "lock"]
                          /\ ccall' = [ccall EXCEPT ![User] =
                                  [kind |-> "gated", wait |-> wait, len |-> Len(d.bytes),
                                   answer |-> NotAsked]]
                          /\ UNCHANGED cres
             [] cmd.kind = "unknown" ->
                  /\ cres' = [cres EXCEPT ![User] = "unknown_cmd"]
                  /\ calls' = less
                  /\ UNCHANGED <<cpc, ccall, queue, sentLog, chat_history>>
             [] cmd.kind = "prompt" ->
                  /\ chat_history' = Append(chat_history, cmd.arg)
                  /\ cpc' = [cpc EXCEPT ![User] = "prompting"]
                  /\ calls' = [less EXCEPT ![Agent] = MaxGated]
                  /\ UNCHANGED <<cres, ccall, queue, sentLog>>
    /\ UNCHANGED <<wvars, osvars, reply, procLog, replLog, execution_lock, yolo, ovars,
                   svars, rvars, tvars, reaped, bvars>>

\* The reply to :snap or :reset arrives. An error leaves process_line and
\* run_repl through `?`. After an Ok reset the agent's history is cleared and
\* the snapshot is requested.
ReplAwait ==
    /\ cpc[User] = "repl_await"
    /\ reply[User] # NoReply
    /\ reply' = [reply EXCEPT ![User] = NoReply]
    /\ IF reply[User].tag \notin {"ok", "snap"}
       THEN /\ cpc' = [cpc EXCEPT ![User] = "gone"]
            /\ cres' = [cres EXCEPT ![User] = reply[User].tag]
            /\ ccall' = [ccall EXCEPT ![User] = NoCall]
            /\ UNCHANGED <<queue, sentLog, chat_history>>
       ELSE IF ccall[User].kind = "repl_reset"
       THEN /\ chat_history' = <<>>
            /\ IF RxAlive
               THEN /\ Enqueue("Snapshot", User, <<>>)
                    /\ ccall' = [ccall EXCEPT ![User].kind = "repl_snap"]
                    /\ UNCHANGED <<cpc, cres>>
               ELSE /\ cpc' = [cpc EXCEPT ![User] = "gone"]
                    /\ cres' = [cres EXCEPT ![User] = "not_running"]
                    /\ ccall' = [ccall EXCEPT ![User] = NoCall]
                    /\ UNCHANGED <<queue, sentLog>>
       ELSE /\ cpc' = [cpc EXCEPT ![User] = "idle"]
            /\ cres' = [cres EXCEPT ![User] = "ok"]
            /\ ccall' = [ccall EXCEPT ![User] = NoCall]
            /\ UNCHANGED <<queue, sentLog, chat_history>>
    /\ UNCHANGED <<wvars, osvars, procLog, replLog, execution_lock, yolo, calls, ovars,
                   svars, rvars, repl_line, tvars, reaped, bvars>>

\* agent_runtime.prompt returns, with a response or an error, once the agent
\* is in no tool call.
PromptReturn ==
    /\ cpc[User] = "prompting"
    /\ cpc[Agent] = "idle"
    /\ cpc' = [cpc EXCEPT ![User] = "idle"]
    /\ calls' = [calls EXCEPT ![Agent] = 0]
    /\ \E res \in {"agent_ok", "agent_err"} : cres' = [cres EXCEPT ![User] = res]
    /\ UNCHANGED <<wvars, osvars, chvars, execution_lock, yolo, ccall, ovars, svars, rvars,
                   lvars, tvars, reaped, bvars>>

\* ---------------------------------------------------------------- TerminalSnapshot::render
\* The marker glyph U+25AE that render puts at the cursor.
Marker == "U+25AE"

\* usize's Display: the decimal digits.
Digit(d) ==
    CASE d = 0 -> "0" [] d = 1 -> "1" [] d = 2 -> "2" [] d = 3 -> "3" [] d = 4 -> "4"
      [] d = 5 -> "5" [] d = 6 -> "6" [] d = 7 -> "7" [] d = 8 -> "8" [] d = 9 -> "9"
RECURSIVE Dec(_)
Dec(n) == IF n < 10 THEN <<Digit(n)>> ELSE Append(Dec(n \div 10), Digit(n % 10))

\* escape_display_char: char::escape_default.
escape_display_char(ch) ==
    CASE ch = "\"" -> <<"\\", "\"">>
      [] ch = "'" -> <<"\\", "'">>
      [] ch = "\\" -> <<"\\", "\\">>
      [] ch = "\t" -> <<"\\", "t">>
      [] ch = "\n" -> <<"\\", "n">>
      [] ch = "\r" -> <<"\\", "r">>
      [] ch = "e_acute" -> <<"\\", "u", "{", "e", "9", "}">>
      [] ch = "nbsp" -> <<"\\", "u", "{", "a", "0", "}">>
      [] ch = Marker -> <<"\\", "u", "{", "2", "5", "a", "e", "}">>
      [] OTHER -> <<ch>>

\* rendered_lines.join("\n")
RECURSIVE JoinLines(_)
JoinLines(ls) ==
    IF ls = <<>> THEN <<>>
    ELSE IF Len(ls) = 1 THEN ls[1]
    ELSE ls[1] \o <<"\n">> \o JoinLines(Tail(ls))

\* The end of render: the joined rows, a newline if that text is not empty,
\* and the footer. The rendered rows and the footer are kept beside the text.
RenderOut(ls, footer) ==
    [lines |-> ls,
     footer |-> footer,
     text |-> (IF JoinLines(ls) # <<>> THEN JoinLines(ls) \o <<"\n">> ELSE <<>>) \o footer]

\* A footer that reports a position for a hidden cursor.
HiddenFooter_Origin == <<"Cursor info: row=0, col=0, char=\" \"">>

HiddenFooter == <<"Cursor info: row=-, col=-, char=\"\"">>
CursorFooter(row, col, ch) ==
    <<"Cursor info: row=">> \o Dec(row) \o <<", col=">> \o Dec(col)
        \o <<", char=\"">> \o escape_display_char(ch) \o <<"\"">>

\* The overlay with the row grown by copies of the marker.
Overlay_PadMarker(ls, col, row) ==
    LET resized == IF row >= Len(ls) THEN ls \o [i \in 1..(row + 1 - Len(ls)) |-> <<>>] ELSE ls
        line == resized[row + 1]
        chars == IF col >= Len(line)
                 THEN line \o [i \in 1..(col + 1 - Len(line)) |-> Marker] ELSE line
    IN [resized EXCEPT ![row + 1] = [chars EXCEPT ![col + 1] = Marker]]

\* The rows with the marker overlaid at (col, row), the list of rows and the
\* row padded first where the cursor lies beyond them.
Overlay(ls, col, row) ==
    LET resized == IF row >= Len(ls) THEN ls \o [i \in 1..(row + 1 - Len(ls)) |-> <<>>] ELSE ls
        line == resized[row + 1]
        chars == IF col >= Len(line)
                 THEN line \o [i \in 1..(col + 1 - Len(line)) |-> " "] ELSE line
    IN [resized EXCEPT ![row + 1] = [chars EXCEPT ![col + 1] = Marker]]

\* render reading the cursor character after the overlay.
render_CharAfterOverlay(s) ==
    LET trimmed == [i \in 1..Len(s.lines) |-> trim_end(s.lines[i])] IN
    IF s.cursor = NoCursor THEN RenderOut(trimmed, HiddenFooter)
    ELSE LET col == s.cursor[1]
             row == s.cursor[2]
             ls == Overlay(trimmed, col, row)
         IN RenderOut(ls, CursorFooter(row, col, ls[row + 1][col + 1]))

\* TerminalSnapshot::render
render(s) ==
    LET trimmed == [i \in 1..Len(s.lines) |-> trim_end(s.lines[i])] IN
    IF s.cursor = NoCursor THEN RenderOut(trimmed, HiddenFooter)
    ELSE LET col == s.cursor[1]
             row == s.cursor[2]
             cursor_char == IF row < Len(s.lines) /\ col < Len(s.lines[row + 1])
                            THEN s.lines[row + 1][col + 1] ELSE " "
         IN RenderOut(Overlay(trimmed, col, row), CursorFooter(row, col, cursor_char))

\* snapshot.render() is called.
Render ==
    /\ rendered = NotRendered
    /\ snapshot # NoSnapshot
    /\ rendered' = render(snapshot)
    /\ UNCHANGED <<wvars, osvars, chvars, cvars, ovars, svars, snapshot, lvars, tvars, reaped, bvars>>

\* ---------------------------------------------------------------- specification
\* What is common to every start: the first triple is live and the worker
\* enters its loop.
InitWorker ==
    /\ wpc = "top"
    /\ child = 1
    /\ new_child = 0
    /\ child_exited = FALSE
    /\ vt = 0
    /\ wcmd = NoCmd
    /\ wrem = <<>>
    /\ procs = [g \in Gens |-> IF g = 1 THEN "running" ELSE "unspawned"]
    /\ ptyIn = [g \in Gens |-> <<>>]
    /\ ptyOut = [g \in Gens |-> 0]
    /\ termRuns = [g \in Gens |-> 0]
    /\ queue = <<>>
    /\ reply = [c \in Clients |-> NoReply]
    /\ sentLog = <<>>
    /\ procLog = <<>>
    /\ replLog = <<>>
    /\ execution_lock = "free"
    /\ ccall = [c \in Callers |-> NoCall]
    /\ cres = [c \in Callers |-> "none"]
    /\ shutdowns = 0
    /\ options = [cols |-> MaxSize, rows |-> MaxSize]
    /\ cols = options.cols
    /\ rows = options.rows
    /\ sizes = [g \in Gens |-> IF g = 1 THEN Sz(cols, rows) ELSE NoSize]
    /\ snapshot = NoSnapshot
    /\ rendered = NotRendered
    /\ repl_line = NoLine
    /\ chat_history = <<>>
    /\ NoPreview

\* The session as main.rs runs it: TerminalSession::start has returned, the
\* user types :raw, :snap and :reset at the REPL, and the owner shuts the
\* session down. Or start's future was dropped before the readiness signal, and
\* no sender of the channel is left.
Init ==
    /\ InitWorker
    /\ NoTermination
    /\ yolo = FALSE
    /\ \/ /\ cpc = [c \in Callers |-> "idle"]
          /\ calls = [c \in Callers |-> IF c = User THEN MaxCalls ELSE 0]
          /\ opc = "idle"
          /\ worker = "some"
          /\ ready = "taken"
          /\ sres = "session"
       \/ /\ cpc = [c \in Callers |-> "gone"]
          /\ calls = [c \in Callers |-> 0]
          /\ opc = "dropped"
          /\ worker = "none"
          /\ ready = "closed"
          /\ sres = "none"

UserNext ==
    \/ GatedCall(User) \/ LockAcquire(User)
    \/ SendInputCall(User) \/ AwaitAck(User) \/ Sleep(User)
    \/ SnapshotCall(User) \/ AwaitSnap(User)
    \/ DirectCall(User) \/ AwaitDirect(User)

Next ==
    \/ WorkerNext
    \/ ChildOutput \/ ChildExit
    \/ UserNext
    \/ OwnerNext

Spec == Init /\ [][Next]_vars

\* The execution gate under two concurrent callers, the agent's tool calls
\* and the user's :raw, over a session that is neither reset nor shut down.
GateInit ==
    /\ InitWorker
    /\ NoTermination
    /\ yolo \in BOOLEAN
    /\ cpc = [c \in Callers |-> "idle"]
    /\ calls = [c \in Callers |-> MaxGated]
    /\ opc = "idle"
    /\ worker = "some"
    /\ ready = "taken"
    /\ sres = "session"

GateWorkerNext ==
    \/ DrainTop \/ PollExit
    \/ RecvSendInput \/ WriteStep \/ WriteRetry
    \/ RecvSnapshot \/ RecvTimeout

GateCallerNext(c) ==
    \/ GatedCall(c) \/ LockAcquire(c) \/ MaybeConfirm(c)
    \/ SendInputCall(c) \/ AwaitAck(c) \/ Sleep(c)
    \/ SnapshotCall(c) \/ AwaitSnap(c)

GateNext ==
    \/ GateWorkerNext
    \/ ChildExit
    \/ \E c \in Callers : GateCallerNext(c)

GateSpec == GateInit /\ [][GateNext]_vars

\* TerminalSession::start under every configured size, then the user's
\* :raw, :snap and :reset on the session it returned.
SizeInputs == {-1, 0} \cup 1..MaxSize \cup {U16Max + 1}

\* No session: no worker, no child, no caller, nothing sent.
NoSession ==
    /\ wpc = "unborn"
    /\ child = 0
    /\ new_child = 0
    /\ child_exited = FALSE
    /\ vt = 0
    /\ wcmd = NoCmd
    /\ wrem = <<>>
    /\ procs = [g \in Gens |-> "unspawned"]
    /\ ptyIn = [g \in Gens |-> <<>>]
    /\ ptyOut = [g \in Gens |-> 0]
    /\ termRuns = [g \in Gens |-> 0]
    /\ queue = <<>>
    /\ reply = [c \in Clients |-> NoReply]
    /\ sentLog = <<>>
    /\ procLog = <<>>
    /\ replLog = <<>>
    /\ execution_lock = "free"
    /\ yolo = FALSE
    /\ cpc = [c \in Callers |-> "gone"]
    /\ ccall = [c \in Callers |-> NoCall]
    /\ calls = [c \in Callers |-> IF c = User THEN MaxCalls ELSE 0]
    /\ cres = [c \in Callers |-> "none"]
    /\ opc = "start"
    /\ worker = "none"
    /\ shutdowns = 0
    /\ cols = 0
    /\ rows = 0
    /\ sizes = [g \in Gens |-> NoSize]
    /\ ready = "none"
    /\ sres = "none"
    /\ repl_line = NoLine
    /\ chat_history = <<>>
    /\ NoTermination

\* Nothing has been started yet.
NotStarted ==
    /\ NoSession
    /\ NoPreview

StartInit ==
    /\ NotStarted
    /\ options \in [cols : SizeInputs, rows : SizeInputs]
    /\ snapshot = NoSnapshot
    /\ rendered = NotRendered

StartWorkerNext ==
    \/ WorkerSize \/ WorkerSpawn \/ WorkerSetupExit
    \/ DrainTop \/ PollExit
    \/ RecvSendInput \/ WriteStep \/ WriteRetry
    \/ RecvSnapshot
    \/ RecvReset \/ ResetSpawn \/ ResetTerminate \/ ResetSwap
    \/ RecvTimeout

StartSpecNext ==
    \/ StartNext
    \/ StartWorkerNext
    \/ ChildExit
    \/ UserNext

StartSpec == StartInit /\ [][StartSpecNext]_vars

\* render on every small snapshot: rows over a double quote (a printable
\* character that the footer escapes), a blank and a no-break space (U+00A0,
\* whitespace that is not a blank), the cursor hidden, inside the rows, or
\* one past them.
CellInputs == {"\"", " ", "nbsp"}
RowInputs == UNION {[1..n -> CellInputs] : n \in 0..MaxWidth}
SnapshotInputs ==
    [cols : {MaxWidth}, rows : {MaxLines},
     cursor : {NoCursor} \cup ((0..MaxWidth) \X (0..MaxLines)),
     lines : UNION {[1..n -> RowInputs] : n \in 0..MaxLines}]

RenderInit ==
    /\ NotStarted
    /\ options = [cols |-> MaxSize, rows |-> MaxSize]
    /\ snapshot \in SnapshotInputs
    /\ rendered = NotRendered

RenderSpec == RenderInit /\ [][Render]_vars

\* The REPL over a running session: run_repl reads lines and process_line
\* dispatches them; the agent calls its tool while a prompt is being answered.
ReplInit ==
    /\ InitWorker
    /\ NoTermination
    /\ yolo \in BOOLEAN
    /\ cpc = [c \in Callers |-> "idle"]
    /\ calls = [c \in Callers |-> IF c = User THEN MaxReplLines ELSE 0]
    /\ opc = "idle"
    /\ worker = "some"
    /\ ready = "taken"
    /\ sres = "session"

ReplWorkerNext ==
    \/ DrainTop \/ PollExit
    \/ RecvSendInput \/ WriteStep \/ WriteRetry
    \/ RecvSnapshot
    \/ RecvReset \/ ResetSpawn \/ ResetTerminate \/ ResetSwap
    \/ RecvTimeout

ReplUserNext ==
    \/ ProcessLine \/ ReplAwait \/ PromptReturn
    \/ LockAcquire(User)
    \/ SendInputCall(User) \/ AwaitAck(User) \/ Sleep(User)
    \/ SnapshotCall(User) \/ AwaitSnap(User)

ReplNext ==
    \/ ReplWorkerNext
    \/ ChildExit
    \/ ReplUserNext
    \/ GateCallerNext(Agent)

ReplSpec == ReplInit /\ [][ReplNext]_vars

\* The termination sequence at the end of run_worker, step by step, on a
\* shell with descendants in its process group: the owner shuts the session
\* down; the shell may have exited before, and any member may ignore TERM.
TermInit ==
    /\ InitWorker
    /\ yolo = FALSE
    /\ cpc = [c \in Callers |-> "idle"]
    /\ calls = [c \in Callers |-> 0]
    /\ opc = "idle"
    /\ worker = "some"
    /\ ready = "taken"
    /\ sres = "session"
    /\ tpc = "none"
    /\ signals = <<>>
    /\ waited = "none"
    /\ pgroup \in [Desc -> {"absent", "running"}]
    /\ ignores \in SUBSET {m \in Members : m = 0 \/ pgroup[m] = "running"}
    /\ fatal = {}
    /\ reaped = FALSE

TermWorkerNext ==
    \/ DrainTop \/ PollExit
    \/ RecvShutdown \/ RecvTimeout
    \/ LadderNext

TermNext ==
    \/ TermWorkerNext
    \/ ChildExit \/ Die
    \/ OwnerNext

TermSpec == TermInit /\ [][TermNext]_vars

\* The session and its handles are dropped while the worker runs: Spec with
\* the drop of a handle and Drop for TerminalSession.
DropNext ==
    \/ Next
    \/ \E c \in Callers : HandleDrop(c)
    \/ SessionDrop

DropSpec == Init /\ [][DropNext]_vars

\* render_bytes and decode_terminal_input on every short byte string: the
\* four escaped bytes, control bytes, printable bytes that are hex digits or
\* the letters of an escape, and bytes above 0x7e.
MaxBytes == 2
BytesInputs ==
    LET byte == {0, 9, 10, 13, 27, 32, 48, 65, 92, 110, 120, 126, 127, 128, 233, 255}
    IN  UNION {[1..n -> byte] : n \in 0..MaxBytes}

BytesInit ==
    /\ NoSession
    /\ options = [cols |-> MaxSize, rows |-> MaxSize]
    /\ snapshot = NoSnapshot
    /\ rendered = NotRendered
    /\ confirm_bytes \in BytesInputs
    /\ preview = NotPreviewed
    /\ redecoded = NotDecoded

\* maybe_confirm: let preview = render_bytes(bytes).
Preview ==
    /\ preview = NotPreviewed
    /\ preview' = render_bytes(confirm_bytes)
    /\ UNCHANGED <<wvars, osvars, chvars, cvars, ovars, svars, rvars, lvars,
                   tvars, reaped, confirm_bytes, redecoded>>

\* The preview is given back as the text of an input: decode_terminal_input.
Redecode ==
    /\ preview # NotPreviewed
    /\ redecoded = NotDecoded
    /\ redecoded' = decode_terminal_input(preview)
    /\ UNCHANGED <<wvars, osvars, chvars, cvars, ovars, svars, rvars, lvars,
                   tvars, reaped, confirm_bytes, preview>>

BytesSpec == BytesInit /\ [][Preview \/ Redecode]_vars

\* The session with a worker thread that the scheduler always runs again.
\* Nothing is assumed of the child or of the PTY.
FairSpec == Spec /\ WF_vars(WorkerNext)

\* The same, and a shutdown under way goes on whenever it can: the timeout
\* fires, a finished join returns.
ShutdownFairSpec ==
    Spec /\ WF_vars(WorkerNext) /\ WF_vars(ShutdownAck \/ ShutdownTimeout \/ ShutdownJoin)


\* ---------------------------------------------------------------- properties
Range(f) == {f[i] : i \in 1..Len(f)}

\* The SendInput commands the worker acknowledged with Ok.
OkSendInputs == {e \in Range(replLog) : e.tag = "ok" /\ sentLog[e.seq].kind = "SendInput"}

\* The positions of PTY g's input that hold bytes of command s.
PositionsOf(g, s) == {i \in 1..Len(ptyIn[g]) : ptyIn[g][i][1] = s}

\* Command s's payload of len bytes stands in PTY g's input whole, in
\* order, in one piece, and nowhere else.
WrittenWhole(g, s, len) ==
    /\ Cardinality(PositionsOf(g, s)) = len
    /\ \A h \in Gens \ {g} : PositionsOf(h, s) = {}
    /\ \E start \in 0..Len(ptyIn[g]) :
        /\ start + len <= Len(ptyIn[g])
        /\ \A n \in 1..len : ptyIn[g][start + n] = <<s, n>>

\* C1: the payloads of two gated injections are never interleaved in the bytes
\* written to the PTY: the bytes of one command occupy consecutive positions,
\* and the payload of every injection acknowledged with Ok is there whole and
\* in order, so of two such payloads one stands entirely before the other.
C1_NoInterleaving ==
    \A g \in Gens :
        /\ \A i \in 1..Len(ptyIn[g]) : \A k \in i..Len(ptyIn[g]) : \A j \in i..k :
              ptyIn[g][i][1] = ptyIn[g][k][1] => ptyIn[g][j][1] = ptyIn[g][i][1]
        /\ \A e \in OkSendInputs : e.gen = g => WrittenWhole(g, e.seq, sentLog[e.seq].len)

\* Both callers' payloads of MaxLen bytes were written and acknowledged.
C1_Witness ==
    \E e1 \in OkSendInputs : \E e2 \in OkSendInputs :
        /\ sentLog[e1.seq].from = Agent /\ sentLog[e2.seq].from = User
        /\ sentLog[e1.seq].len = MaxLen /\ sentLog[e2.seq].len = MaxLen

\* Between the acquisition of the gate token and the end of the gated call.
InGate(c) == cpc[c] \in {"confirm", "deny", "send", "await_ack", "sleep", "snap",
                         "await_snap", "await_deny"}

\* C2: the gate token is held from before the confirmation until the call's
\* snapshot reply is received: a caller inside that span holds the token,
\* no other caller is inside it, and every command queued or being processed
\* by the worker comes from the holder.
C2_GateHeld ==
    /\ \A c \in Callers : InGate(c) =>
          /\ execution_lock = c
          /\ \A d \in Callers \ {c} : ~InGate(d)
    /\ \A i \in 1..Len(queue) : queue[i].from = execution_lock
    /\ wcmd # NoCmd => wcmd.from = execution_lock

\* One caller sleeps out its wait inside the gate while the other is blocked
\* on the token.
C2_Witness ==
    \E c \in Callers : \E d \in Callers \ {c} : cpc[c] = "sleep" /\ cpc[d] = "lock"


\* The step in which a Reset's spawn fails, and the one that serves a Snapshot.
ResetFailedStep == wpc = "reset" /\ wpc' = "top"
SnapshotStep == wpc = "recv" /\ queue # <<>> /\ Head(queue).kind = "Snapshot" /\ wpc' = "top"

\* Between replies i and j the worker acknowledged no Reset with Ok.
NoResetBetween(i, j) ==
    \A k \in i..j : ~(replLog[k].tag = "ok" /\ sentLog[replLog[k].seq].kind = "Reset")

\* C3: Reset is fail-atomic. The step in which the spawn fails replies the
\* spawn error and leaves the PTY, the child, the emulator and the
\* exit-observed flag as they were, with no termination run; a Snapshot serves
\* the current emulator; so every Snapshot replied after a failed Reset (and
\* before a successful one) shows the child and at least the screen content
\* of before that Reset.
C3_FailAtomicReset ==
    /\ [][/\ ResetFailedStep =>
               /\ reply'[wcmd.from] = R("spawn_err")
               /\ UNCHANGED <<child, new_child, child_exited, vt, procs, ptyIn,
                              ptyOut, termRuns>>
          /\ SnapshotStep =>
               /\ reply'[Head(queue).from] = Snap(child, vt')
               /\ vt' >= vt
               /\ UNCHANGED <<child, child_exited, procs, ptyIn, termRuns>>]_vars
    /\ [](\A i \in 1..Len(replLog) : \A j \in i..Len(replLog) :
            (replLog[i].tag = "spawn_err" /\ replLog[j].tag = "snap" /\ NoResetBetween(i, j))
            => (replLog[j].gen = replLog[i].gen /\ replLog[j].fed >= replLog[i].fed))

\* A Reset failed over a running child whose screen had content, and a
\* Snapshot was served after it.
C3_Witness ==
    \E i \in 1..Len(replLog) : \E j \in i..Len(replLog) :
        /\ replLog[i].tag = "spawn_err" /\ replLog[i].fed > 0
        /\ replLog[j].tag = "snap"
        /\ procs[child] = "running"

LiveChildren == {g \in Gens : procs[g] = "running"}

\* C4 as claimed: at every moment, every step of a Reset included, at most one
\* spawned child that has not been terminated exists.
C4_AtMostOneLive == Cardinality(LiveChildren) <= 1

\* C4 as amended: the live children are among the worker's current child
\* and the replacement a Reset has spawned; there are two only while that
\* Reset is between its successful spawn and the termination of the old
\* child, and at most one at every other moment.
C4_OneLiveOutsideReset ==
    /\ LiveChildren \subseteq {child, new_child}
    /\ wpc # "reset_term" => Cardinality(LiveChildren) <= 1

\* A Reset has spawned the replacement and the old child still runs.
C4_Witness == wpc = "reset_term" /\ LiveChildren = {child, new_child} /\ child # new_child

\* The commands are received in send order.
InSendOrder == procLog = [i \in 1..Len(procLog) |-> i]

\* The worker is inside write_all_with_retry for command s.
Writing(s) == wpc \in {"write", "wsleep"} /\ wcmd.seq = s

\* The tag of the reply to command s, "none" when there is none yet.
ReplyTag(s) == IF \E e \in Range(replLog) : e.seq = s
               THEN (CHOOSE e \in Range(replLog) : e.seq = s).tag ELSE "none"

\* C5 as claimed: commands are processed in send order, and the bytes
\* written to a PTY are exactly the payloads of the SendInputs that replied Ok
\* (and what the write in progress has written), whole and in channel order.
C5_ExactlyOkPayloads ==
    /\ InSendOrder
    /\ \A e \in OkSendInputs : WrittenWhole(e.gen, e.seq, sentLog[e.seq].len)
    /\ \A g \in Gens : \A i \in 1..Len(ptyIn[g]) :
          \/ ReplyTag(ptyIn[g][i][1]) = "ok"
          \/ Writing(ptyIn[g][i][1])

\* C5 as amended: commands are processed in send order, one at a time; the
\* bytes written to a PTY are, in channel order, the whole payload of every
\* SendInput that replied Ok and a proper prefix of the payload of every
\* SendInput whose write failed, each in order and without a gap or a
\* repetition; a SendInput refused because the child had exited wrote nothing.
C5_PayloadsInOrder ==
    /\ InSendOrder
    /\ Len(procLog) - Len(replLog) \in {0, 1}
    /\ \A e \in OkSendInputs : WrittenWhole(e.gen, e.seq, sentLog[e.seq].len)
    /\ \A g \in Gens : \A i \in 1..Len(ptyIn[g]) :
          LET s == ptyIn[g][i][1]
              n == ptyIn[g][i][2]
          IN /\ sentLog[s].kind = "SendInput"
             /\ s \in Range(procLog)
             /\ n <= sentLog[s].len
             /\ ReplyTag(s) \in {"ok", "write_err"} \/ Writing(s)
             /\ ReplyTag(s) = "write_err" => Cardinality(PositionsOf(g, s)) < sentLog[s].len
             /\ IF i = 1 THEN n = 1
                ELSE \/ ptyIn[g][i - 1][1] = s /\ ptyIn[g][i - 1][2] = n - 1
                     \/ ptyIn[g][i - 1][1] < s /\ n = 1

\* A write failed after part of its payload was written, and a later
\* SendInput to the same PTY replied Ok.
C5_Witness ==
    \E e \in Range(replLog) : \E f \in OkSendInputs :
        /\ e.tag = "write_err" /\ PositionsOf(e.gen, e.seq) # {}
        /\ f.gen = e.gen /\ f.seq > e.seq /\ sentLog[f.seq].len = MaxLen

\* The positions of the worker inside the processing of a command.
MidCommand == {"write", "wsleep", "reset", "reset_term", "reset_swap"}

\* C6: every command the worker received is replied to exactly once, in the
\* order received, before the next command is received: the replies are
\* those of the received commands, one each, and a received command is without
\* reply only while the worker is inside its processing.
C6_RepliedOnce ==
    /\ Len(replLog) <= Len(procLog)
    /\ \A i \in 1..Len(replLog) : replLog[i].seq = procLog[i]
    /\ \A i \in 1..Len(procLog) : \A j \in 1..Len(procLog) : procLog[i] = procLog[j] => i = j
    /\ Len(procLog) - Len(replLog) = IF wpc \in MidCommand THEN 1 ELSE 0
    /\ wpc \in MidCommand => wcmd.seq = procLog[Len(procLog)]

\* A command of each of the four variants was received and replied to.
C6_Witness ==
    {sentLog[e.seq].kind : e \in Range(replLog)} = {"SendInput", "Snapshot", "Reset", "Shutdown"}


\* The caller waits on its one-shot reply channel, which holds nothing yet.
Await == {"await_ack", "await_snap", "await_deny", "await_direct"}
Pending(c) == cpc[c] \in Await /\ reply[c] = NoReply

\* C7: every call sent to a live worker eventually gets its
\* reply, whatever the child and its PTY do.
C7_EveryCallAnswered == \A c \in Callers : Pending(c) ~> ~Pending(c)

\* A caller waits for the acknowledgement of a SendInput whose write has
\* reported would-block.
C7_Witness == Pending(User) /\ wpc = "wsleep" /\ wcmd.from = User

\* C8: whenever the worker thread has ended, the termination sequence was run
\* on its current child.
C8_TerminatedOnEveryExit == wpc = "done" => termRuns[child] >= 1

\* The rank of the last command c sent.
LastSeq(c) == CHOOSE i \in 1..Len(sentLog) :
                 /\ sentLog[i].from = c
                 /\ \A j \in (i + 1)..Len(sentLog) : sentLog[j].from # c

\* C9: after the worker thread has ended no command stays queued and no
\* caller waits on an empty reply channel: the caller of a command that was
\* never received finds its channel closed; and the send half of every call
\* made from then on fails at once with "worker is not running".
C9_UnavailableAfterEnd ==
    /\ [](wpc = "done" =>
            /\ queue = <<>>
            /\ \A c \in Callers : cpc[c] \in Await =>
                  /\ reply[c] # NoReply
                  /\ LastSeq(c) \notin Range(procLog) => reply[c] = R("dropped"))
    /\ [][wpc = "done" => \A c \in Callers :
            /\ (cpc[c] \in {"send", "snap", "deny"} /\ cpc'[c] # cpc[c])
                  => (cpc'[c] = "idle" /\ cres'[c] = "not_running")
            /\ (cpc[c] = "idle" /\ calls'[c] # calls[c])
                  => \/ cpc'[c] = "lock"
                     \/ cpc'[c] = "idle" /\ cres'[c] \in {"not_running", "input_err",
                                                           "decode_err", "usage_err"}
            /\ (cpc[c] \in Await /\ cpc'[c] # cpc[c] /\ LastSeq(c) \notin Range(procLog))
                  => (cpc'[c] = "idle" /\ cres'[c] = "dropped")]_vars

\* The worker ended with the user's command still queued: the user finds the
\* reply channel closed.
C9_Witness == wpc = "done" /\ cpc[User] \in Await /\ reply[User] = R("dropped")

ShutdownsSent == Cardinality({i \in 1..Len(sentLog) : sentLog[i].kind = "Shutdown"})

\* C10: shutdown is idempotent. A second or later call finds the worker
\* handle taken, returns at once and changes nothing: no Shutdown is sent, no termination
\* runs. At most one Shutdown is ever sent and no child is terminated twice. A
\* call made after the worker ended by itself finds the acknowledgement
\* channel closed and the thread joinable, so it does not wait.
C10_ShutdownIdempotent ==
    /\ [][(shutdowns >= 1 /\ shutdowns' # shutdowns)
            => (opc' = "idle" /\ worker = "none"
                /\ UNCHANGED <<wvars, osvars, chvars, cvars, worker>>)]_vars
    /\ [](ShutdownsSent <= 1 /\ \A g \in Gens : termRuns[g] <= 1)
    /\ []((wpc = "done" /\ opc = "sd_ack") => reply[Owner] # NoReply)

\* shutdown was called a second time after the first call had returned.
C10_Witness == shutdowns = 2 /\ opc = "idle" /\ worker = "none" /\ wpc = "done"

\* C11: a shutdown under way returns: after the bounded wait for the
\* acknowledgement it comes back to its caller, whatever the worker does.
C11_ShutdownReturns == (opc \in {"sd_ack", "sd_join"}) ~> (opc = "idle")

\* The wait for the acknowledgement timed out while the worker was inside
\* write_all_with_retry: shutdown is at the join.
C11_Witness == opc = "sd_join" /\ wpc \in {"write", "wsleep"} /\ reply[Owner] = NoReply

StartFailed == sres \in {"thread_err", "spawn_err", "exited_err"}

\* C12: start returns a session only once the first PTY, child and emulator
\* exist and the worker is in its loop; a handle exists only on a session
\* start returned. When the spawn fails, start returns the spawn error, and
\* whenever start has returned an error the worker thread has ended and the
\* caller has neither session nor handle.
C12_StartOnlyAfterSpawn ==
    /\ sres = "session" =>
          /\ procs[1] # "unspawned" /\ child \in Gens /\ sizes[1] # NoSize
          /\ wpc \notin {"unborn", "setup", "spawn", "setup_exit"}
    /\ (\E c \in Callers : cpc[c] # "gone") \/ worker = "some" => sres = "session"
    /\ StartFailed =>
          /\ wpc = "done"
          /\ opc = "dropped" /\ worker = "none" /\ \A c \in Callers : cpc[c] = "gone"
          /\ \A g \in Gens : procs[g] = "unspawned"
    /\ sres = "spawn_err" <=> (ready = "err" /\ opc = "dropped")

\* The spawn failed and start has returned its error.
C12_Witness == sres = "spawn_err" /\ wpc = "done" /\ cols > 0

\* The worker takes a command of that kind from the channel in this step.
Receives(kind) ==
    /\ wpc = "recv" /\ queue # <<>> /\ Head(queue).kind = kind
    /\ procLog' = Append(procLog, Head(queue).seq)

C14_SizeFixed ==
    /\ \A c \in Clients : reply[c].tag = "snap" =>
          reply[c].cols = options.cols /\ reply[c].rows = options.rows
    /\ \A g \in Gens : sizes[g] # NoSize => sizes[g] = Sz(options.cols, options.rows)
    /\ wpc \notin {"unborn", "setup", "setup_exit", "done"} =>
          cols = options.cols /\ rows = options.rows

\* The user holds a snapshot of the replacement a Reset made, in a session
\* whose width and height differ.
C14_Witness ==
    /\ reply[User].tag = "snap" /\ reply[User].gen = 2
    /\ sizes[2] # NoSize
    /\ options.cols # options.rows

\* Caller c sends a command of that kind in this step.
Sends(c, kind) ==
    /\ Len(sentLog') = Len(sentLog) + 1
    /\ sentLog'[Len(sentLog')].from = c
    /\ sentLog'[Len(sentLog')].kind = kind

SendsAny(c) == \E kind \in {"SendInput", "Snapshot", "Reset", "Shutdown"} : Sends(c, kind)

\* C15: a denied tool call sends no SendInput and performs no wait: up to
\* the confirmation the call has sent nothing, and from the denial on it
\* only requests a Snapshot, waits for it, and returns it marked as denied
\* (or returns the error of the snapshot request).
C15_DenialInjectsNothing ==
    /\ [][\A c \in Callers :
            /\ cpc[c] \in {"lock", "confirm"} => ~SendsAny(c)
            /\ (cpc[c] = "deny" /\ cpc'[c] # cpc[c]) =>
                  \/ cpc'[c] = "await_deny" /\ Sends(c, "Snapshot")
                  \/ cpc'[c] = "idle" /\ cres'[c] = "not_running" /\ ~SendsAny(c)
            /\ (cpc[c] = "await_deny" /\ cpc'[c] # cpc[c]) =>
                  /\ ~SendsAny(c)
                  /\ cpc'[c] = "idle"
                  /\ reply[c].tag = "snap" <=> cres'[c] = "denied"
            /\ cres'[c] = "denied" /\ cres[c] # "denied" => cpc[c] = "await_deny"]_vars
    /\ [](\A c \in Callers : cpc[c] \in {"deny", "await_deny"} =>
            /\ ~yolo /\ ~confirmed(ccall[c].answer)
            /\ execution_lock = c)

\* The agent's call was denied and returned its snapshot.
C15_Witness == cres[Agent] = "denied" /\ cpc[Agent] = "idle" /\ ptyIn[1] = <<>>

\* The answers that are an explicit yes: "y" or "yes" once trimmed, in any
\* letter case.
YesAnswers == { <<"y", "\n">>, <<" ", "Y", "e", "S", " ", "\n">> }

AfterApproval == {"send", "await_ack", "sleep", "snap", "await_snap"}

\* C16: with auto-approve off, the agent's call is past the confirmation
\* (about to send its bytes, or having sent them) only on an answer that is
\* an explicit yes, and every other answer, the empty one included, is a
\* denial; the agent sends a SendInput only then. With auto-approve on no
\* answer is ever read, no call is denied, and the confirmation step goes
\* straight to the injection.
C16_OnlyOnExplicitYes ==
    /\ [](~yolo =>
            /\ cpc[Agent] \in AfterApproval => ccall[Agent].answer \in YesAnswers
            /\ cpc[Agent] \in {"deny", "await_deny"} =>
                  ccall[Agent].answer \in AnswerInputs \ YesAnswers)
    /\ [](yolo =>
            /\ ccall[Agent].answer = NotAsked
            /\ cpc[Agent] \notin {"deny", "await_deny"})
    /\ [][Sends(Agent, "SendInput") =>
            /\ cpc[Agent] = "send"
            /\ yolo \/ ccall[Agent].answer \in YesAnswers]_vars
    /\ [][(yolo /\ cpc[Agent] = "confirm" /\ cpc'[Agent] # cpc[Agent]) =>
            cpc'[Agent] = "send"]_vars

\* With auto-approve off the agent's bytes were sent after the answer " YeS ".
C16_Witness ==
    /\ ~yolo
    /\ cpc[Agent] = "await_ack"
    /\ ccall[Agent].answer = <<" ", "Y", "e", "S", " ", "\n">>
    /\ ccall[Agent].len > 0

\* Caller c's call ends in this step, before the gate, with that error.
RejectedWith(c, err) ==
    /\ cpc[c] = "idle" /\ cpc'[c] = "idle"
    /\ calls'[c] # calls[c]
    /\ cres'[c] = err

\* Nothing of the gate, the channel or the terminal changes in this step.
NoSideEffect == UNCHANGED <<execution_lock, yolo, cpc, ccall, chvars, wvars, osvars, rvars, lvars, tvars, reaped, bvars>>

\* C17: a negative, NaN or infinite wait fails validation, zero and positive
\* waits pass; a call rejected for its wait takes no gate token, asks no
\* confirmation, sends no command and waits for nothing; and no call that
\* got past its entry carries such a wait.
C17_BadWaitRejectedBeforeGate ==
    /\ [](/\ \A w \in {"neg", "nan", "inf"} : validate_wait_seconds(w) # "ok"
          /\ \A w \in {"zero", "pos"} : validate_wait_seconds(w) = "ok")
    /\ [](\A c \in Callers : ccall[c].wait \in {"zero", "pos"})
    /\ [][\A c \in Callers : RejectedWith(c, "input_err") => NoSideEffect]_vars

\* The agent's call was rejected for its wait; the gate is free and nothing
\* was ever sent.
C17_Witness ==
    /\ cres[Agent] = "input_err" /\ cpc[Agent] = "idle"
    /\ execution_lock = "free" /\ sentLog = <<>>

\* The malformed specs among those tried: a dangling trailing backslash; \x
\* with fewer than two characters after it or with a character that is no
\* hexadecimal digit; an unsupported escape letter.
BadSpecs ==
    { <<"\\">>, <<"a", "\\">>,
      <<"\\", "x">>, <<"a", "\\", "x", "4">>, <<"\\", "x", "g", "1">>, <<"\\", "x", "4", "g">>,
      <<"\\", "q">>, <<"a", "\\", "q">> }

\* C18: decoding rejects every malformed spec and accepts the others; on
\* both paths a call whose spec is malformed ends before the gate with the
\* decoding error (on the agent's path after the wait was validated): it
\* takes no token, sends no command, and no byte of it reaches a PTY.
C18_BadSpecRejectedBeforeGate ==
    /\ [](/\ BadSpecs \subseteq SpecInputs
          /\ \A spec \in SpecInputs : decode_terminal_input(spec).ok <=> spec \notin BadSpecs
          /\ \A spec \in BadSpecs :
                /\ PreGate(User, spec, "zero") = "decode_err"
                /\ PreGate(Agent, spec, "zero") = "decode_err")
    /\ [][\A c \in Callers : RejectedWith(c, "decode_err") => NoSideEffect]_vars
    /\ [][\A c \in Callers : (cpc[c] = "idle" /\ calls'[c] # calls[c]) =>
            /\ ~SendsAny(c)
            /\ \/ cpc'[c] = "lock" /\ execution_lock' = execution_lock
               \/ cpc'[c] = "idle" /\ cres'[c] \in {"decode_err", "input_err", "usage_err"}]_vars

\* Both the agent's call and the user's :raw were rejected by decoding, and
\* no byte was written.
C18_Witness ==
    /\ cres[Agent] = "decode_err" /\ cres[User] = "decode_err"
    /\ \A g \in Gens : ptyIn[g] = <<>>
    /\ sentLog = <<>>

\* C19: the order of an approved injection. From "send" the call sends its
\* SendInput and waits for the acknowledgement; on Ok it sleeps if and only if
\* the wait is positive; it sends nothing while it sleeps; then it requests
\* the Snapshot, waits for it, and returns Ok with the snapshot that answered
\* that request. An error of either command ends the call with that error.
C19_InjectWaitSnapshot ==
    /\ [][\A c \in Callers :
            /\ (cpc[c] = "send" /\ cpc'[c] # cpc[c]) =>
                  \/ /\ cpc'[c] = "await_ack" /\ Sends(c, "SendInput")
                     /\ sentLog'[Len(sentLog')].len = ccall[c].len
                  \/ cpc'[c] = "idle" /\ cres'[c] = "not_running" /\ ~SendsAny(c)
            /\ (cpc[c] = "await_ack" /\ cpc'[c] # cpc[c]) =>
                  /\ ~SendsAny(c)
                  /\ reply[c] # NoReply
                  /\ IF reply[c].tag = "ok"
                     THEN cpc'[c] = (IF ccall[c].wait = "pos" THEN "sleep" ELSE "snap")
                     ELSE cpc'[c] = "idle" /\ cres'[c] = reply[c].tag
            /\ (cpc[c] = "sleep" /\ cpc'[c] # cpc[c]) =>
                  cpc'[c] = "snap" /\ ~SendsAny(c)
            /\ (cpc[c] = "snap" /\ cpc'[c] # cpc[c]) =>
                  \/ cpc'[c] = "await_snap" /\ Sends(c, "Snapshot")
                  \/ cpc'[c] = "idle" /\ cres'[c] = "not_running" /\ ~SendsAny(c)
            /\ (cpc[c] = "await_snap" /\ cpc'[c] # cpc[c]) =>
                  /\ ~SendsAny(c)
                  /\ cpc'[c] = "idle"
                  /\ reply[c] # NoReply
                  /\ cres'[c] = (IF reply[c].tag = "snap" THEN "ok" ELSE reply[c].tag)
                  /\ reply[c].tag = "snap" =>
                        /\ sentLog[LastSeq(c)].kind = "Snapshot"
                        /\ \E i \in 1..Len(replLog) :
                              /\ replLog[i].seq = LastSeq(c)
                              /\ replLog[i].tag = "snap"
                              /\ replLog[i].gen = reply[c].gen
                              /\ replLog[i].fed = reply[c].fed
            /\ cpc'[c] \in {"sleep", "snap"} /\ cpc[c] # cpc'[c] =>
                  cpc[c] \in {"await_ack", "sleep"}]_vars
    /\ [](\A c \in Callers :
            /\ cpc[c] = "sleep" => ccall[c].wait = "pos"
            /\ cpc[c] \in {"sleep", "snap", "await_snap"} =>
                  \E i \in 1..Len(replLog) :
                      /\ replLog[i].tag = "ok"
                      /\ sentLog[replLog[i].seq].kind = "SendInput"
                      /\ sentLog[replLog[i].seq].from = c)
    /\ [][\A c \in Callers :
            (cpc[c] = "await_ack" /\ cpc'[c] = "snap") => ccall[c].wait = "zero"]_vars

\* The user's injection with a positive wait has its snapshot reply.
C19_Witness ==
    /\ cpc[User] = "await_snap" /\ ccall[User].wait = "pos" /\ ccall[User].len > 0
    /\ reply[User].tag = "snap"

\* The character of a row at 1-based index i, a blank where the row has none.
Cell(line, i) == IF i <= Len(line) THEN line[i] ELSE " "

\* Source row r (1-based) with its trailing whitespace stripped; no row, no
\* characters.
Stripped(r) == IF r <= Len(snapshot.lines) THEN trim_end(snapshot.lines[r]) ELSE <<>>

\* C20: for a snapshot with a cursor (col, row), the rendered rows include
\* row `row`, which holds the marker at character index col; every other
\* cell of every rendered row equals that cell of the source row stripped of
\* trailing whitespace (a blank where the stripped row has no character), the
\* rows other than the cursor's are exactly the stripped source rows; and the
\* footer gives row, col in decimal and the escaped character the source row
\* had at index col, a blank if it had none.
C20_MarkerAndFooter ==
    (rendered # NotRendered /\ snapshot.cursor # NoCursor) =>
        LET col == snapshot.cursor[1]
            row == snapshot.cursor[2]
            orig == IF row + 1 <= Len(snapshot.lines)
                    THEN Cell(snapshot.lines[row + 1], col + 1) ELSE " "
        IN /\ Len(rendered.lines) >= row + 1
           /\ Len(rendered.lines) >= Len(snapshot.lines)
           /\ Len(rendered.lines[row + 1]) >= col + 1
           /\ rendered.lines[row + 1][col + 1] = Marker
           /\ \A r \in 1..Len(rendered.lines) :
                 /\ r # row + 1 => rendered.lines[r] = Stripped(r)
                 /\ \A i \in 1..(MaxWidth + 2) :
                       <<r, i>> # <<row + 1, col + 1>> =>
                           Cell(rendered.lines[r], i) = Cell(Stripped(r), i)
           /\ rendered.footer =
                 <<"Cursor info: row=">> \o Dec(row) \o <<", col=">> \o Dec(col)
                    \o <<", char=\"">>
                    \o (CASE orig = "\"" -> <<"\\", "\"">>
                          [] orig = "nbsp" -> <<"\\", "u", "{", "a", "0", "}">>
                          [] OTHER -> <<orig>>)
                    \o <<"\"">>

\* A snapshot whose cursor stands on a double quote in the middle of the
\* second row has been rendered.
C20_Witness ==
    /\ rendered # NotRendered
    /\ snapshot.cursor = <<0, 1>>
    /\ snapshot.lines = << <<"nbsp", " ">>, <<"\"", "nbsp">> >>

\* C21: for a snapshot whose cursor is hidden, there are as many rendered
\* rows as source rows, each rendered row is its source row up to the last
\* character that is not whitespace, no row holds the marker, and the footer
\* is exactly `Cursor info: row=-, col=-, char=""`.
C21_HiddenCursor ==
    (rendered # NotRendered /\ snapshot.cursor = NoCursor) =>
        /\ Len(rendered.lines) = Len(snapshot.lines)
        /\ \A r \in 1..Len(snapshot.lines) :
              LET src == snapshot.lines[r]
                  out == rendered.lines[r]
              IN /\ Len(out) <= Len(src)
                 /\ out = SubSeq(src, 1, Len(out))
                 /\ \A i \in (Len(out) + 1)..Len(src) : IsSpace(src[i])
                 /\ out # <<>> => ~IsSpace(out[Len(out)])
                 /\ \A i \in 1..Len(out) : out[i] # Marker
        /\ rendered.footer = <<"Cursor info: row=-, col=-, char=\"\"">>

\* A snapshot with a hidden cursor and a row that ends in whitespace has been
\* rendered.
C21_Witness ==
    /\ rendered # NotRendered
    /\ snapshot.cursor = NoCursor
    /\ snapshot.lines = << <<"\"", " ">>, <<"nbsp", "\"">> >>

\* n blanks
Blanks(n) == [i \in 1..n |-> " "]

\* The footer of a cursor at (col, row) over the character ch, ch needing no
\* escape.
FooterOf(row, col, ch) ==
    <<"Cursor info: row=">> \o Dec(row) \o <<", col=">> \o Dec(col)
        \o <<", char=\"", ch, "\"">>

\* C22: with a cursor (col, row): if row is at or beyond the number of rows,
\* the rendered rows are row + 1, the added rows before the cursor's are empty
\* and the cursor's row is col blanks and the marker; if col is at or beyond
\* the length of its stripped row, the rendered row is the stripped row, then
\* blanks up to col, then the marker; and if the source cell does not exist
\* or held a blank, the footer reports a blank as the original character.
C22_PadsToCursor ==
    (rendered # NotRendered /\ snapshot.cursor # NoCursor) =>
        LET col == snapshot.cursor[1]
            row == snapshot.cursor[2]
            n == Len(snapshot.lines)
            st == Stripped(row + 1)
        IN /\ row >= n =>
                /\ Len(rendered.lines) = row + 1
                /\ \A r \in (n + 1)..row : rendered.lines[r] = <<>>
                /\ rendered.lines[row + 1] = Blanks(col) \o <<Marker>>
           /\ col >= Len(st) =>
                rendered.lines[row + 1] = st \o Blanks(col - Len(st)) \o <<Marker>>
           /\ (\/ row >= n
               \/ col >= Len(snapshot.lines[row + 1])
               \/ snapshot.lines[row + 1][col + 1] = " ") =>
                rendered.footer = FooterOf(row, col, " ")

\* A snapshot whose cursor stands on the trailing blank of its only row has
\* been rendered.
C22_Witness ==
    /\ rendered # NotRendered
    /\ snapshot.cursor = <<1, 0>>
    /\ snapshot.lines = << <<"\"", " ">> >>

\* The first n rows, each followed by a newline.
RECURSIVE RowsWithNewlines(_, _)
RowsWithNewlines(ls, n) ==
    IF n = 0 THEN <<>> ELSE RowsWithNewlines(ls, n - 1) \o ls[n] \o <<"\n">>

\* C23: for a snapshot with at least one row the rendered text is the
\* rendered rows, each followed by a newline (the rows joined by a newline
\* and one trailing newline), and then the footer; whatever the rows hold.
C23_TrailingNewlineIfRows ==
    (rendered # NotRendered /\ Len(snapshot.lines) >= 1) =>
        rendered.text =
            RowsWithNewlines(rendered.lines, Len(rendered.lines)) \o rendered.footer

\* A snapshot of one empty row and a hidden cursor has been rendered.
C23_Witness ==
    /\ rendered # NotRendered
    /\ snapshot.cursor = NoCursor
    /\ snapshot.lines = << <<>> >>

\* The REPL takes a line.
LineStep == calls'[User] = calls[User] - 1

\* The line just taken, without its line ending.
TakenLine == trim_end_matches_crlf(repl_line')

\* Exactly `:raw`, or `:raw` and then a whitespace character.
IsRawLine(t) == t = RAW \/ (Len(t) >= 5 /\ SubSeq(t, 1, 4) = RAW /\ IsSpace(t[5]))

\* What follows `:raw`, from its first character that is not whitespace.
RawPayload(t) ==
    LET r == SubSeq(t, 5, Len(t))
        first == CHOOSE i \in 1..(Len(r) + 1) :
                    /\ \A j \in 1..(i - 1) : IsSpace(r[j])
                    /\ i = Len(r) + 1 \/ ~IsSpace(r[i])
    IN SubSeq(r, first, Len(r))

KnownCommands == {QUIT, Q, HELP, SNAP, RESET}

\* Nothing goes to the terminal or to the agent, and the gate is not entered.
NothingSent ==
    /\ UNCHANGED <<queue, sentLog, ptyIn, chat_history, execution_lock, cpc, ccall>>
    /\ calls'[Agent] = calls[Agent]

\* C24: a line is taken as :raw (it enters the gate or is rejected by
\* send_raw_input) exactly when it is `:raw` or `:raw` followed by a
\* whitespace character; the call that enters the gate carries the decoding
\* of the remainder without its leading whitespace; with an empty payload the
\* line is rejected with the usage error, any other line that starts with a
\* colon and is no known command is reported as unknown, and in both cases
\* nothing is sent to the terminal or to the agent.
C24_RawRecognition ==
    [][LineStep =>
        /\ (\/ cpc'[User] = "lock"
            \/ RejectedWith(User, "usage_err")
            \/ RejectedWith(User, "decode_err")
            \/ RejectedWith(User, "input_err")) <=> IsRawLine(TakenLine)
        /\ cpc'[User] = "lock" =>
              /\ RawPayload(TakenLine) # <<>>
              /\ decode_terminal_input(RawPayload(TakenLine)).ok
              /\ ccall'[User].kind = "gated"
              /\ ccall'[User].len = Len(decode_terminal_input(RawPayload(TakenLine)).bytes)
        /\ (IsRawLine(TakenLine) /\ RawPayload(TakenLine) = <<>>) =>
              RejectedWith(User, "usage_err") /\ NothingSent
        /\ (/\ starts_with(TakenLine, <<":">>)
            /\ TakenLine \notin KnownCommands
            /\ ~IsRawLine(TakenLine)) =>
              RejectedWith(User, "unknown_cmd") /\ NothingSent
    ]_vars

\* `:raw` followed by blanks only has been rejected with the usage error.
C24_Witness ==
    /\ repl_line = RAW \o <<"\t", " ", "\n">>
    /\ cpc[User] = "idle"
    /\ cres[User] = "usage_err"

\* The worker sends the Ok reply of the Reset it is processing.
ResetOkReply ==
    /\ wcmd.kind = "Reset"
    /\ reply'[wcmd.from] # reply[wcmd.from]
    /\ reply'[wcmd.from] = R("ok")

\* C25: on a Reset the replacement is spawned while the old child is
\* untouched and still current; the termination sequence runs on the old
\* child only when the replacement exists, with nothing swapped yet; the
\* worker's child changes only after that termination, to the replacement,
\* with the exit-observed flag cleared and a blank emulator; the Ok reply is
\* not sent before the swap. The emulator is only ever fed the output of the
\* current child, and a snapshot reports the current child's emulator, so
\* after a reset it holds nothing of the previous child.
C25_ResetOrder ==
    [][/\ (wpc = "reset" /\ wpc' = "reset_term") =>
            /\ new_child' \notin {0, child}
            /\ procs[new_child'] = "unspawned" /\ procs'[new_child'] = "running"
            /\ procs'[child] = procs[child]
            /\ UNCHANGED <<termRuns, child, vt, child_exited, reply>>
       /\ (wcmd.kind = "Reset" /\ termRuns' # termRuns) =>
            /\ wpc = "reset_term"
            /\ new_child # 0
            /\ termRuns' = [termRuns EXCEPT ![child] = @ + 1]
            /\ procs'[child] = "dead"
            /\ UNCHANGED <<child, new_child, vt, child_exited, reply>>
       /\ child' # child =>
            /\ wpc = "reset_swap"
            /\ new_child # 0 /\ child' = new_child
            /\ termRuns[child] = 1 /\ procs[child] = "dead"
            /\ child_exited' = FALSE
            /\ vt' = 0
       /\ ResetOkReply =>
            /\ termRuns[child] = 1
            /\ child' = new_child /\ new_child # 0
            /\ child_exited' = FALSE
            /\ vt' = 0
            /\ wpc' = "top"
       /\ vt' # vt =>
            \/ child' # child /\ vt' = 0
            \/ /\ child' = child
               /\ \E n \in 1..ptyOut[child] :
                      vt' = vt + n /\ ptyOut'[child] = ptyOut[child] - n
       /\ \A c \in Clients :
            (reply'[c] # reply[c] /\ reply'[c].tag = "snap") =>
                reply'[c].gen = child /\ reply'[c].fed = vt' /\ child' = child
    ]_vars

\* After a reset of a child that had written output, a snapshot of the
\* second child's blank emulator is replied.
C25_Witness ==
    /\ child = 2
    /\ ptyOut[1] >= 1
    /\ \E c \in Clients : reply[c].tag = "snap" /\ reply[c].gen = 2 /\ reply[c].fed = 0

\* C26: the step that receives a Shutdown sends its acknowledgement and
\* leaves the loop; from there the worker receives no command and feeds no
\* output, and the thread ends by one run of the termination sequence on the
\* current child; no child ever has the termination sequence run on it twice.
C26_ShutdownTerminatesOnce ==
    /\ [](\A g \in Gens : termRuns[g] <= 1)
    /\ [][/\ Receives("Shutdown") =>
              /\ reply'[Head(queue).from] = R("ok")
              /\ wpc' = "term"
              /\ UNCHANGED <<termRuns, procs, child>>
          /\ wpc = "term" =>
              /\ UNCHANGED <<procLog, vt, child>>
              /\ wpc' \in {"term", "done"}
              /\ wpc' = "done" =>
                    /\ termRuns[child] = 0
                    /\ termRuns' = [termRuns EXCEPT ![child] = 1]
                    /\ procs'[child] = "dead"
          /\ wpc = "done" => UNCHANGED <<termRuns, procLog, wpc>>
       ]_vars

\* The worker has ended on a Shutdown after a reset: each of the two
\* children was terminated once.
C26_Witness ==
    /\ wpc = "done"
    /\ child = 2
    /\ termRuns[1] = 1 /\ termRuns[2] = 1
    /\ procLog # <<>> /\ sentLog[procLog[Len(procLog)]].kind = "Shutdown"

\* COLUMNS or LINES is missing or not a number (read as a negative value),
\* zero, or beyond the u16 range.
BadSize ==
    \E n \in {options.cols, options.rows} : n < 0 \/ n = 0 \/ n > U16Max

\* C27: with a bad terminal size, no PTY is ever opened and no child
\* spawned, start does not return a session, and once the worker has failed
\* on the size (it left with the readiness channel unused), what start
\* returns is the configuration error.
C27_SizeErrorReported ==
    BadSize =>
        /\ \A g \in Gens : procs[g] = "unspawned" /\ sizes[g] = NoSize
        /\ sres # "session"
        /\ (ready = "closed" /\ sres # "none") => sres = "config_err"

\* start has returned for a configuration whose COLUMNS is zero.
C27_Witness ==
    /\ options.cols = 0
    /\ options.rows > 0
    /\ ready = "closed"
    /\ sres # "none"
    /\ opc = "dropped"

\* The ladder, weakest first.
Ladder == <<"TERM_group", "KILL_group", "KILL_child">>

\* What was sent is the ladder up to some step: in its order, nothing twice.
LadderPrefix == Len(signals) <= Len(Ladder) /\ signals = SubSeq(Ladder, 1, Len(signals))

\* A step of terminate_bash_and_children that sends a signal.
SendsSignal == signals' # signals

\* C28 as claimed: the signals sent are a prefix of the ladder; the sequence
\* returns at once, with nothing sent, if the child has already exited when
\* it starts; and a signal is only ever sent while the child has not exited.
C28_MonotonicLadder ==
    /\ []LadderPrefix
    /\ [][/\ (wpc = "term" /\ tpc = "none" /\ procs[child] = "dead" /\ tpc' # tpc) =>
              tpc' = "returned" /\ signals' = <<>>
          /\ SendsSignal => procs[child] = "running"
       ]_vars

\* C28 as amended: the signals sent are a prefix of the ladder; a signal is
\* sent only in a step whose wait did not report the exit, that is, the child
\* was still running at the deadline or try_wait failed; a wait that reports
\* the exit returns at once with nothing more sent, and it reports an exit
\* only of a child that has exited.
C28_LadderUnlessExitSeen ==
    /\ []LadderPrefix
    /\ [][/\ SendsSignal =>
              /\ waited' \in {"timeout", "error"}
              /\ waited' = "timeout" => procs[child] = "running"
              /\ signals' = SubSeq(Ladder, 1, Len(signals) + 1)
              /\ tpc' # "returned"
          /\ (tpc' # tpc /\ waited' = "exited") =>
              /\ procs[child] = "dead"
              /\ tpc' = "returned"
              /\ UNCHANGED <<signals, fatal>>
          /\ (tpc' = "returned" /\ tpc \notin {"returned", "child_killed"}) =>
              waited' = "exited"
       ]_vars

\* The whole ladder was needed: all three signals were sent and the sequence
\* has returned.
C28_Witness ==
    /\ tpc = "returned"
    /\ signals = Ladder

\* A member of the group that runs and has been sent nothing that ends it.
LeftRunning(m) == Running(m) /\ m \notin fatal

\* C29: when the termination sequence has returned, no member of the
\* child's process group, shell or descendant, is left running.
C29_GroupTerminated ==
    tpc = "returned" => \A m \in Members : ~LeftRunning(m)

\* The sequence has returned on a shell that had exited before it started,
\* with a descendant in the group.
C29_Witness ==
    /\ tpc = "returned"
    /\ signals = <<>>
    /\ procs[child] = "dead"
    /\ pgroup[1] # "absent"

\* The worker is inside a command that takes more than one step.
InCommand == wpc \in {"write", "wsleep", "reset", "reset_term", "reset_swap"}

\* The worker has left its loop.
LoopEnded == wpc \in {"term", "done"}

\* Output of the current child waits in the PTY, and its exit has not been
\* observed.
OutputPending == ptyOut[child] > 0 /\ ~child_exited

\* C30: an iteration of the loop whose child has not been observed to exit
\* feeds everything the PTY holds to the emulator before it waits for a
\* command, the wait is only entered from such a drain, and so, with the
\* worker thread scheduled, pending output of the current child is always
\* eventually fed, whether or not a command is ever sent, unless the worker
\* is inside a command, leaves its loop, or observes the child's exit.
C30_OutputEventuallyFed ==
    /\ [][/\ (wpc = "top" /\ ~child_exited /\ wpc' = "poll") =>
              /\ vt' = vt + ptyOut[child]
              /\ ptyOut'[child] = 0
          /\ (wpc # "recv" /\ wpc' = "recv") => wpc \in {"top", "poll"}
          /\ (wpc = "poll" /\ wpc' = "recv") => UNCHANGED <<vt, ptyOut>>
       ]_vars
    /\ (OutputPending ~> (ptyOut[child] = 0 \/ child_exited \/ InCommand \/ LoopEnded))

\* Output was fed to the emulator of a running worker though no command was
\* ever sent.
C30_Witness ==
    /\ vt >= 1
    /\ sentLog = <<>>
    /\ wpc = "recv"
    /\ ~child_exited

\* C31: a Snapshot the worker receives is always answered, in the step that
\* receives it, with a snapshot of the current emulator holding what had been
\* fed to it plus what the drain of that step fed, never with an error; the
\* worker is back at the top of its loop after it whatever the drain
\* returned, and no reply to a Snapshot ever carries anything but a snapshot.
C31_SnapshotAlwaysOk ==
    /\ [][Receives("Snapshot") =>
            /\ reply'[Head(queue).from] = Snap(child, vt')
            /\ vt' \in vt..(vt + ptyOut[child])
            /\ child' = child
            /\ wpc' = "top"]_vars
    /\ [](\A i \in 1..Len(replLog) :
            sentLog[replLog[i].seq].kind = "Snapshot" => replLog[i].tag = "snap")

\* A Snapshot was just answered with a snapshot although output of the
\* running child was left unread in the PTY, as it is when the read fails.
C31_Witness ==
    /\ wpc = "top" /\ ~child_exited /\ procs[child] = "running"
    /\ ptyOut[child] > 0
    /\ replLog # <<>>
    /\ replLog[Len(replLog)].tag = "snap"
    /\ replLog[Len(replLog)].gen = child
    /\ replLog[Len(replLog)].fed = vt
    /\ wpc # "done"

\* C32: the step that processes a Snapshot only moves pending output of the
\* current child from its PTY into the current emulator: nothing is written
\* to any PTY, no process is signalled, spawned or ended, the child and the
\* emulator stay the ones they were (the emulator keeps what it had been
\* fed), and the exit-observed flag keeps its value, also when the child is
\* dead and the drain reaches the end of file.
C32_SnapshotFrame ==
    [][Receives("Snapshot") =>
        /\ ptyIn' = ptyIn
        /\ procs' = procs /\ termRuns' = termRuns
        /\ signals' = signals /\ tpc' = tpc /\ fatal' = fatal
        /\ child' = child /\ new_child' = new_child /\ sizes' = sizes
        /\ child_exited' = child_exited
        /\ vt' >= vt
        /\ vt' + ptyOut'[child] = vt + ptyOut[child]
        /\ \A g \in Gens \ {child} : ptyOut'[g] = ptyOut[g]
        /\ wrem' = wrem /\ wcmd' = wcmd]_vars

\* A Snapshot was just answered for a child that is dead and whose output
\* has been read to the end into the emulator, and the flag is still unset.
C32_Witness ==
    /\ wpc = "top" /\ ~child_exited
    /\ procs[child] = "dead" /\ ptyOut[child] = 0 /\ vt > 0
    /\ replLog # <<>>
    /\ replLog[Len(replLog)].tag = "snap"
    /\ replLog[Len(replLog)].gen = child
    /\ replLog[Len(replLog)].fed = vt
    /\ \A g \in Gens : ptyIn[g] = <<>>

\* The worker is in its loop, and it leaves it in this step.
InLoop == wpc \notin {"term", "done"}
LeavesLoop == InLoop /\ wpc' \in {"term", "done"}

\* C33: once every sender of the command channel is dropped, the worker
\* leaves its loop only from its receive and with nothing left queued (it
\* has taken every command that was queued, the last of them or the
\* disconnection ending the loop), and having left the loop it ends only
\* through one run of the termination sequence on the current child.
C33_DrainsQueueThenTerminates ==
    /\ [][(Senders = 0 /\ LeavesLoop) =>
            /\ wpc = "recv" /\ wpc' = "term"
            /\ queue' = <<>>]_vars
    /\ [][(Senders = 0 /\ wpc # "done" /\ wpc' = "done") =>
            /\ wpc = "term"
            /\ termRuns'[child] = termRuns[child] + 1]_vars

\* The session was dropped without shutdown and every handle with it; the
\* Shutdown its Drop had queued was never received, and the worker has ended
\* without a run of the termination sequence on its child, which still runs.
C33_Witness ==
    /\ Senders = 0 /\ shutdowns = 0
    /\ wpc = "done"
    /\ \E i \in 1..Len(sentLog) :
          /\ sentLog[i].kind = "Shutdown"
          /\ i \notin Range(procLog)
    /\ termRuns[child] = 0
    /\ procs[child] = "running"

\* The last reply the worker sent.
LastReply == replLog[Len(replLog)]

\* C34: inside a SendInput a write that is interrupted or would block only
\* makes the worker sleep and write again, with no reply sent and nothing
\* of the payload lost; any other write failure is replied as an error to
\* the sender of that SendInput and to nobody else, in the step where it
\* happens, and leaves the worker at the top of its loop with the queue, the
\* child and the exit flag as they were; the worker never leaves its loop
\* from inside the write.
C34_WriteFailures ==
    /\ [][((wpc = "write" /\ wpc' = "wsleep") \/ (wpc = "wsleep" /\ wpc' # wpc)) =>
            /\ wpc' \in {"wsleep", "write"}
            /\ reply' = reply /\ replLog' = replLog
            /\ wrem' = wrem /\ wcmd' = wcmd /\ ptyIn' = ptyIn]_vars
    /\ [][(wpc = "write" /\ replLog' # replLog /\ LastReply'.tag # "ok") =>
            /\ LastReply'.tag = "write_err" /\ LastReply'.seq = wcmd.seq
            /\ sentLog[wcmd.seq].kind = "SendInput"
            /\ reply' = [reply EXCEPT ![wcmd.from] = R("write_err")]
            /\ wpc' = "top"
            /\ queue' = queue /\ child' = child /\ procs' = procs
            /\ child_exited' = child_exited]_vars
    /\ [][(wpc \in {"write", "wsleep"}) => wpc' \in {"write", "wsleep", "top"}]_vars

\* A SendInput with a payload was answered with the write error, and a
\* command sent after it was then served by the same worker.
C34_Witness ==
    \E i, j \in 1..Len(replLog) :
        /\ i < j
        /\ replLog[i].tag = "write_err" /\ sentLog[replLog[i].seq].len > 0
        /\ replLog[j].seq > replLog[i].seq
        /\ replLog[j].tag \in {"ok", "snap"}

\* C35: a command that is still in the channel when the worker leaves its
\* loop is never executed. A Shutdown is the last command the worker ever
\* receives; once the loop is left nothing is received, written, replied or
\* spawned; a command that was never received has none of its bytes in any
\* PTY and no reply; and when the thread ends the queue is dropped, every
\* caller with a command in it finds its reply channel closed, and its call
\* returns that error.
C35_QueuedBehindExitNeverRun ==
    /\ [](\A i \in 1..Len(procLog) :
            sentLog[procLog[i]].kind = "Shutdown" => i = Len(procLog))
    /\ [](\A s \in 1..Len(sentLog) : s \notin Range(procLog) =>
            /\ \A g \in Gens : PositionsOf(g, s) = {}
            /\ \A i \in 1..Len(replLog) : replLog[i].seq # s)
    /\ [][(wpc \in {"term", "done"}) =>
            /\ procLog' = procLog /\ ptyIn' = ptyIn /\ replLog' = replLog
            /\ \A g \in Gens : procs[g] = "unspawned" => procs'[g] = "unspawned"]_vars
    /\ [][(wpc # "done" /\ wpc' = "done") =>
            /\ queue' = <<>>
            /\ \A i \in 1..Len(queue) : reply'[queue[i].from] = R("dropped")]_vars
    /\ [][\A c \in Callers :
            (cpc[c] \in Await /\ reply[c] = R("dropped") /\ cpc'[c] # cpc[c])
                => (cpc'[c] = "idle" /\ cres'[c] = "dropped")]_vars

\* The worker ended on a Shutdown it had received; a SendInput with a
\* payload, or a Reset, sent after that Shutdown was never received, and its
\* caller's call has returned the closed-channel error.
C35_Witness ==
    /\ wpc = "done"
    /\ \E t, s \in 1..Len(sentLog) :
          /\ t < s
          /\ sentLog[t].kind = "Shutdown" /\ t \in Range(procLog)
          /\ \/ sentLog[s].kind = "SendInput" /\ sentLog[s].len > 0
             \/ sentLog[s].kind = "Reset"
          /\ s \notin Range(procLog)
          /\ sentLog[s].from = User
    /\ cpc[User] = "idle" /\ cres[User] = "dropped"
    /\ \A g \in Gens : ptyIn[g] = <<>>
    /\ procs[2] = "unspawned"

\* The results of a gated call that ends in an error after it took the gate.
GateErrors == {"confirm_err", "not_running", "dropped", "exited", "write_err"}

\* C36: the gate token is held exactly by a caller that is inside its gated
\* call. Whenever such a call ends, whatever its result (denied, an error of
\* the confirmation, of the SendInput or of the Snapshot, or success), the
\* token is free in the next state; a SendInput that was answered with an
\* error ends the call at once, with no wait and no Snapshot sent; and a
\* caller waiting for the token is only ever kept waiting by a caller that
\* is inside its own call.
C36_GateAlwaysReleased ==
    /\ [](\A c \in Callers : execution_lock = c <=> InGate(c))
    /\ [](\A c \in Callers : cpc[c] = "lock" /\ execution_lock # "free"
                => \E d \in Callers \ {c} : InGate(d))
    /\ [][\A c \in Callers : (InGate(c) /\ cpc'[c] = "idle") =>
            /\ execution_lock' = "free"
            /\ cres'[c] \in {"ok", "denied"} \cup GateErrors]_vars
    /\ [][\A c \in Callers :
            (cpc[c] = "await_ack" /\ cpc'[c] # cpc[c] /\ reply[c].tag # "ok") =>
                /\ cpc'[c] = "idle" /\ cres'[c] = reply[c].tag
                /\ execution_lock' = "free"
                /\ sentLog' = sentLog]_vars

\* The agent's approved call failed in its SendInput and sent no Snapshot;
\* the user's call, whose SendInput was sent after the agent's, went through
\* the gate and succeeded; the token is free.
C36_Witness ==
    /\ cpc[Agent] = "idle" /\ cres[Agent] \in {"write_err", "exited"}
    /\ cpc[User] = "idle" /\ cres[User] = "ok"
    /\ execution_lock = "free"
    /\ sentLog # <<>> /\ sentLog[1].from = Agent /\ sentLog[1].kind = "SendInput"
    /\ \A i \in 1..Len(sentLog) : sentLog[i].from = Agent => sentLog[i].kind = "SendInput"

\* The command sent in this step.
SentNow == sentLog'[Len(sentLog')]

\* C37: the user's injection is never put to the confirmation, with the
\* auto-approve flag set or not: it is never asked, denied or failed by the
\* confirmation step, and goes from the token straight to its SendInput.
\* It takes the same token as the agent's tool call: while the agent is
\* anywhere between its confirmation and the end of its call the user is
\* not past the token (and the other way round), and every command is sent
\* by the holder of the token.
C37_UserInjectionUngatedButSerialized ==
    /\ [](/\ cpc[User] \notin {"confirm", "deny", "await_deny"}
          /\ ccall[User].answer = NotAsked
          /\ cres[User] \notin {"denied", "confirm_err"})
    /\ [][(cpc[User] = "lock" /\ cpc'[User] # "lock") =>
            /\ execution_lock = "free" /\ execution_lock' = User
            /\ cpc'[User] = "send"
            /\ ~InGate(Agent)]_vars
    /\ [](~(InGate(Agent) /\ InGate(User)))
    /\ [][sentLog' # sentLog =>
            /\ execution_lock = SentNow.from
            /\ \A d \in Callers \ {SentNow.from} : ~InGate(d)]_vars

\* Without auto-approve, the agent's call was confirmed and ran to its
\* snapshot; the user's injection, which came after it through the token,
\* has sent its SendInput without having been asked anything.
C37_Witness ==
    /\ ~yolo
    /\ cres[Agent] = "ok" /\ cpc[Agent] = "idle"
    /\ cpc[User] = "await_ack" /\ execution_lock = User
    /\ ccall[User].answer = NotAsked /\ ccall[User].len > 0
    /\ Len(sentLog) = 3
    /\ sentLog[1].from = Agent /\ sentLog[2].from = Agent /\ sentLog[2].kind = "Snapshot"
    /\ sentLog[3].from = User /\ sentLog[3].kind = "SendInput"

\* C38 as stated: the exit flag is sticky, and while it is set the worker
\* performs no exit poll and cannot end from the top of its loop.
C38_NoPollWhileSet ==
    /\ [][(child_exited /\ ~child_exited') => wpc = "reset_swap"]_vars
    /\ [][(child_exited /\ wpc = "poll") => wpc' = wpc]_vars
    /\ [][(child_exited /\ wpc \in {"top", "poll", "recv"}) => wpc' # "done"]_vars

\* C38: the exit flag is set only by the drain or the poll of the loop top,
\* on a dead child. Once set it is cleared only by the swap of a Reset whose
\* spawn succeeded, which makes the replacement the current child and
\* acknowledges with Ok; a Reset whose spawn fails leaves flag and child as
\* they were. A loop iteration that finds the flag set at its top goes
\* straight to the receive: nothing is drained or polled, and the worker
\* does not end there. The poll of the iteration whose drain has just set
\* the flag still runs. Bytes are written only with the flag unset, and only
\* to the current child, so after a successful Reset to the replacement.
C38_StickyUntilReset ==
    /\ [][(~child_exited /\ child_exited') =>
            (wpc \in {"top", "poll"} /\ procs[child] = "dead")]_vars
    /\ [][(child_exited /\ ~child_exited') =>
            /\ wpc = "reset_swap" /\ new_child \in Gens
            /\ child' = new_child /\ child' # child
            /\ reply'[wcmd.from] = R("ok")]_vars
    /\ [][(wpc = "reset" /\ wpc' = "top") =>
            (child_exited' = child_exited /\ child' = child)]_vars
    /\ [][(child_exited /\ wpc = "top" /\ wpc' # wpc) =>
            (wpc' = "recv" /\ vt' = vt /\ ptyOut' = ptyOut)]_vars
    /\ [][(child_exited /\ wpc \in {"top", "recv"}) => wpc' # "done"]_vars
    /\ [][(ptyIn' # ptyIn) =>
            /\ ~child_exited
            /\ \A g \in Gens \ {child} : ptyIn'[g] = ptyIn[g]]_vars
    /\ [][(~child_exited /\ Receives("SendInput")) => wpc' = "write"]_vars

\* A SendInput was refused because the exit had been observed; the Reset
\* that followed succeeded: the replacement is the current child and the
\* flag is unset.
C38_Witness ==
    /\ child = 2 /\ ~child_exited /\ wpc = "top"
    /\ Len(replLog) = 2
    /\ replLog[1].tag = "exited"
    /\ replLog[2].tag = "ok" /\ sentLog[replLog[2].seq].kind = "Reset"

\* No member of the process group runs: signalling the group finds no
\* process to deliver to.
GroupGone == \A m \in Members : ~Running(m)

C40_DecodeInvertsRender ==
    redecoded # NotDecoded => redecoded.ok /\ redecoded.bytes = confirm_bytes

\* A backslash and a byte above 0x7e were rendered and decoded again.
C40_Witness ==
    /\ redecoded # NotDecoded
    /\ confirm_bytes = <<92, 233>>
    /\ preview = <<"\\", "\\", "\\", "x", "E", "9">>

====
